---- MODULE Spec2Model ----
(***************************************************************************)
(* The worker-pool orchestrator of dtslint-runner: the crash-recovery      *)
(* version of runWithListeningChildProcesses, with the event handlers it   *)
(* attaches to each forked child, the pure helpers that read and remove    *)
(* the --max-old-space-size flag of an argv list, and main: the shard it   *)
(* tests, the failures its handlers collect and the result it returns.     *)
(*                                                                         *)
(* The coordinator is single threaded: every handler runs to completion,   *)
(* so one action is one handler invocation (or one iteration of the        *)
(* synchronous slot-start loop, during which no handler can run).          *)
(***************************************************************************)
EXTENDS Integers, Sequences, FiniteSets, TLC

\* ------------------------------------------------------------------ bounds
MaxTasks == 3
MaxProcs == 2
\* How many workers may end on their own (crash) in one run.
MaxCrashes == 3
\* The sizes of the runs whose whole behaviours (not only states) are checked.
LiveMaxTasks == 2
LiveMaxProcs == 2
\* The packages and the shards of the runs of main, and how many packages
\* and processes such a run may test and use.
MaxPackages == 4
MaxShards == 2
MainMaxTasks == 2
MainMaxProcs == 1
\* The longest process.execArgv of the runs that differ in it.
MaxArgvLen == 3
\* The sizes of the runs in which a worker hangs.
HangMaxTasks == 3
HangMaxProcs == 2
\* The largest n and inputs.length of a call of nAtATime.
NatMaxN == 2
NatMaxInputs == 3
\* The sizes of the runs of the runner without crash recovery.
LegacyMaxTasks == 3
LegacyMaxProcs == 2

\* ------------------------------------------------- CrashRecoveryState enum
Normal == "Normal"
Retry == "Retry"
RetryWithMoreMemory == "RetryWithMoreMemory"
Crashed == "Crashed"
CrashRecoveryState == {Normal, Retry, RetryWithMoreMemory, Crashed}

\* ------------------------------------------------------------ argv tokens
\* An argv token is one of
\*   "flagEq": --max-old-space-size=<v>   (us: spelled with underscores)
\*   "flag"  : --max-old-space-size       (value expected in the next token)
\*   "num"   : the decimal string <v>
\*   "other" : any other option, e.g. --expose-gc
FlagEq(v, us) == [k |-> "flagEq", v |-> v, us |-> us]
FlagBare(us) == [k |-> "flag", v |-> 0, us |-> us]
Num(v) == [k |-> "num", v |-> v, us |-> FALSE]
Other == [k |-> "other", v |-> 0, us |-> FALSE]

\* JavaScript's NaN and undefined, as they come out of parseInt and of a
\* missing match; both are falsy.
NaN == -1
Undefined == -2

DEFAULT_CRASH_RECOVERY_MAX_OLD_SPACE_SIZE == 4096

\* maxOldSpaceSizeRegExp.exec(tok) is not null
RegExpMatches(tok) == tok.k \in {"flagEq", "flag"}

\* match[1]: the digits after "=", or undefined
MatchGroup1(tok) == IF tok.k = "flagEq" THEN tok.v ELSE Undefined

\* parseInt(tok, 10)
ParseInt(tok) == IF tok.k = "num" THEN tok.v ELSE NaN

NoArg == [index |-> 0, size |-> 0, value |-> Undefined]

\* getMaxOldSpaceSizeArg that returns the last occurrence of the flag
getMaxOldSpaceSizeArg_LastMatch(argv) ==
    IF \E n \in 1..Len(argv) : RegExpMatches(argv[n])
    THEN LET index == CHOOSE n \in 1..Len(argv) :
                          /\ RegExpMatches(argv[n])
                          /\ \A m \in (n + 1)..Len(argv) : ~RegExpMatches(argv[m])
             tok == argv[index]
         IN  [index |-> index,
              size  |-> IF MatchGroup1(tok) # Undefined THEN 1 ELSE 2,
              value |-> IF MatchGroup1(tok) # Undefined THEN MatchGroup1(tok)
                        ELSE IF index + 1 <= Len(argv) THEN ParseInt(argv[index + 1])
                        ELSE Undefined]
    ELSE NoArg

\* getMaxOldSpaceSizeArg that takes every occurrence for the two-token form
getMaxOldSpaceSizeArg_SizeTwo(argv) ==
    IF \E n \in 1..Len(argv) : RegExpMatches(argv[n])
    THEN LET index == CHOOSE n \in 1..Len(argv) :
                          /\ RegExpMatches(argv[n])
                          /\ \A m \in 1..(n - 1) : ~RegExpMatches(argv[m])
             tok == argv[index]
         IN  [index |-> index,
              size  |-> 2,
              value |-> IF MatchGroup1(tok) # Undefined THEN MatchGroup1(tok)
                        ELSE IF index + 1 <= Len(argv) THEN ParseInt(argv[index + 1])
                        ELSE Undefined]
    ELSE NoArg

\* Indices are 1-based here, 0-based in the source.
getMaxOldSpaceSizeArg(argv) ==
    IF \E n \in 1..Len(argv) : RegExpMatches(argv[n])
    THEN LET index == CHOOSE n \in 1..Len(argv) :
                          /\ RegExpMatches(argv[n])
                          /\ \A m \in 1..(n - 1) : ~RegExpMatches(argv[m])
             tok == argv[index]
         IN  [index |-> index,
              size  |-> IF MatchGroup1(tok) # Undefined THEN 1 ELSE 2,
              value |-> IF MatchGroup1(tok) # Undefined THEN MatchGroup1(tok)
                        ELSE IF index + 1 <= Len(argv) THEN ParseInt(argv[index + 1])
                        ELSE Undefined]
    ELSE NoArg

\* arg && arg.value
getMaxOldSpaceSize(argv) ==
    LET arg == getMaxOldSpaceSizeArg(argv)
    IN  IF arg = NoArg THEN Undefined ELSE arg.value

\* x || 0
OrZero(x) == IF x \in {NaN, Undefined, 0} THEN 0 ELSE x

\* execArgv.splice(index, size)
Splice(argv, index, size) ==
    SubSeq(argv, 1, index - 1) \o SubSeq(argv, index + size, Len(argv))

\* getExecArgvWithoutMaxOldSpaceSize that removes the first occurrence only
getExecArgvWithoutMaxOldSpaceSize_OnlyFirst(argv) ==
    LET arg == getMaxOldSpaceSizeArg(argv)
    IN  IF arg = NoArg THEN argv
        ELSE Splice(argv, arg.index, arg.size)

RECURSIVE getExecArgvWithoutMaxOldSpaceSize(_)
getExecArgvWithoutMaxOldSpaceSize(argv) ==
    LET arg == getMaxOldSpaceSizeArg(argv)
    IN  IF arg = NoArg THEN argv
        ELSE getExecArgvWithoutMaxOldSpaceSize(Splice(argv, arg.index, arg.size))

\* The tokens process.execArgv is made of, and the lists of at most n tokens.
Tokens ==
    {FlagEq(2048, FALSE), FlagEq(8192, TRUE), FlagBare(FALSE), Num(4096), Other}

ArgvLists(n) == UNION {[1..m -> Tokens] : m \in 0..n}

\* The options and process.execArgv a run is started with:
\* [crashRecovery, crashRecoveryMaxOldSpaceSize, process.execArgv].
Opt(cr, ceiling, argv) == [crashRecovery |-> cr, ceiling |-> ceiling, execArgv |-> argv]

OptionChoices ==
    { \* crashRecovery omitted, ceiling defaulted
      Opt(FALSE, DEFAULT_CRASH_RECOVERY_MAX_OLD_SPACE_SIZE, <<Other>>),
      \* what main passes: recovery on, ceiling 0
      Opt(TRUE, 0, <<>>),
      \* heap flag below the ceiling
      Opt(TRUE, DEFAULT_CRASH_RECOVERY_MAX_OLD_SPACE_SIZE, <<Other, FlagEq(2048, FALSE)>>),
      \* heap flag, in its two-token form, equal to the ceiling
      Opt(TRUE, DEFAULT_CRASH_RECOVERY_MAX_OLD_SPACE_SIZE, <<FlagBare(TRUE), Num(4096), Other>>),
      \* the flag given twice, the first below and the second above the ceiling
      Opt(TRUE, DEFAULT_CRASH_RECOVERY_MAX_OLD_SPACE_SIZE,
          <<FlagEq(2048, TRUE), Other, FlagEq(8192, FALSE)>>) }

\* ------------------------------------------------------------------ state
VARIABLES
    allPackages,                   \* main: the packages found, in their order
    sharding,                      \* main: the shard to test, if any
    expectedFailures,              \* main: the packages listed as failing
    status,                        \* per tested package: the status its test reports
    allFailures,                   \* main: the failures collected so far
    result,                        \* main: what it returns
    nInputs,                       \* inputs.length; the tasks are 1..nInputs
    nProcesses,
    crashRecovery,
    crashRecoveryMaxOldSpaceSize,
    execArgv,                      \* process.execArgv
    i,                             \* the slot-start loop's counter
    inputIndex,
    processesLeft,
    rejected,
    runningChildren,
    child,                         \* per slot: its current ChildProcess
    crashRecoveryState,            \* per slot
    currentInput,                  \* per slot
    procs,                         \* every ChildProcess forked so far
    settled,                       \* the promise: pending, resolved or rejected
    calls,                         \* what the run has called so far
    nCrashes,                      \* how many workers have ended on their own
    nAtATime,                      \* a call of nAtATime: its locals and its workers
    legacy                         \* a run of the runner without crash recovery

optVars == <<allPackages, sharding, expectedFailures, status,
             nInputs, nProcesses, crashRecovery, crashRecoveryMaxOldSpaceSize, execArgv>>
\* The variables of the other two programs, which a run of the runner with
\* crash recovery leaves alone.
otherVars == <<nAtATime, legacy>>
runVars == <<allPackages, sharding, expectedFailures, status, allFailures, result,
             nInputs, nProcesses, crashRecovery, crashRecoveryMaxOldSpaceSize, execArgv,
             i, inputIndex, processesLeft, rejected, runningChildren, child,
             crashRecoveryState, currentInput, procs, settled, calls, nCrashes>>
vars == <<runVars, otherVars>>

\* A program that is not called in the run at hand.
NotCalled == [called |-> FALSE]

Slots == 1..nProcesses
Tasks == 1..nInputs
NoChild == <<0, 0>>
NoInput == 0
AllEvents == {"exit", "disconnect", "close"}

\* sharding is undefined
NoSharding == [id |-> 0, count |-> 0]

\* packages.filter((_, i) => (i % count) === (id - 1)), from the 1-based
\* position k on; i is k - 1.
RECURSIVE ShardFrom(_, _, _, _)
ShardFrom(packages, k, id, count) ==
    IF k > Len(packages) THEN <<>>
    ELSE (IF (k - 1) % count = id - 1 THEN <<packages[k]>> ELSE <<>>)
             \o ShardFrom(packages, k + 1, id, count)

\* Shard that compares the remainder with id instead of id - 1
Shard_ComparesWithId(packages, id, count) == ShardFrom(packages, 1, id + 1, count)

\* Shard that takes id for count and count for id
Shard_SwapsIdAndCount(packages, id, count) == ShardFrom(packages, 1, count, id)

Shard(packages, id, count) == ShardFrom(packages, 1, id, count)

testedPackages ==
    IF sharding # NoSharding THEN Shard(allPackages, sharding.id, sharding.count)
    ELSE allPackages

Range(seq) == {seq[k] : k \in 1..Len(seq)}

\* The status a test reports: "OK", or the text of its failure.
Statuses == {"OK", "Error"}

\* const maxOldSpaceSize = getMaxOldSpaceSize(process.execArgv) || 0
maxOldSpaceSize == OrZero(getMaxOldSpaceSize(execArgv))

\* The mutable state as one record, so that the nested calls of a handler compose.
State ==
    [inputIndex |-> inputIndex, processesLeft |-> processesLeft, rejected |-> rejected,
     runningChildren |-> runningChildren, child |-> child,
     crashRecoveryState |-> crashRecoveryState, currentInput |-> currentInput,
     procs |-> procs, settled |-> settled, calls |-> calls, allFailures |-> allFailures]

\* The handler's result st1 is computed once, then assigned.
Commit(st1) ==
    \E st \in {st1} :
    /\ inputIndex' = st.inputIndex
    /\ processesLeft' = st.processesLeft
    /\ rejected' = st.rejected
    /\ runningChildren' = st.runningChildren
    /\ child' = st.child
    /\ crashRecoveryState' = st.crashRecoveryState
    /\ currentInput' = st.currentInput
    /\ procs' = st.procs
    /\ settled' = st.settled
    /\ calls' = st.calls
    /\ allFailures' = st.allFailures
    /\ UNCHANGED <<optVars, otherVars>>

\* A ChildProcess right after fork() and the wiring of its listeners; the
\* record holds, with the process, the variables of the closure that
\* startChild makes for it (closed) and what that closure has done.
NewChild(argv) ==
    [execArgv |-> argv, alive |-> TRUE, listening |-> TRUE, inbox |-> <<>>,
     pending |-> AllEvents, closed |-> FALSE, timer |-> FALSE, sendFailed |-> FALSE,
     onClose |-> 0]

\* child.removeAllListeners()
RemoveAllListeners(p) == [p EXCEPT !.listening = FALSE]

\* child.kill(): the process ends; nothing it had is seen again.
Kill(p) == [p EXCEPT !.alive = FALSE, !.inbox = <<>>, !.pending = {}, !.sendFailed = FALSE]

\* resolve() / reject(): only the first call settles the promise.
Resolve(st) ==
    [st EXCEPT !.settled = IF @ = "pending" THEN "resolved" ELSE @,
               !.calls.resolve = @ + 1]

Reject(st) ==
    [st EXCEPT !.settled = IF @ = "pending" THEN "rejected" ELSE @,
               !.calls.reject = @ + 1]

fail(st) ==
    IF st.rejected THEN st
    ELSE Reject([st EXCEPT
            !.rejected = TRUE,
            !.procs = [c \in DOMAIN @ |->
                         IF c \in st.runningChildren
                         THEN Kill(RemoveAllListeners(@[c])) ELSE @[c]]])

onError(st, s) ==
    LET c == st.child[s]
    IN  fail([st EXCEPT !.procs[c] = RemoveAllListeners(@),
                        !.runningChildren = @ \ {c}])

\* assert(runningChildren.has(child)); a failure is caught by the caller's catch
AssertRunning(st, s) == st.child[s] \in st.runningChildren

AssertFailed(st, s) == onError([st EXCEPT !.calls.assertFailed = TRUE], s)

\* child.send(currentInput): a worker that is running gets the message; the
\* send to a worker that has ended fails, which the ChildProcess reports
\* with an 'error' event.
Send(st, s) ==
    LET c == st.child[s]
        t == st.currentInput[s]
    IN  [st EXCEPT !.procs[c].inbox = IF st.procs[c].alive THEN Append(@, t) ELSE @,
                   !.procs[c].sendFailed = IF st.procs[c].alive THEN @ ELSE TRUE,
                   !.calls.send = IF t \in Tasks THEN [@ EXCEPT ![t] = @ + 1] ELSE @]

\* resumeTask that announces the task again
resumeTask_CallsHandleStart(st, s) ==
    IF ~AssertRunning(st, s) THEN AssertFailed(st, s)
    ELSE Send([st EXCEPT !.calls.handleStart = Append(@, st.currentInput[s])], s)

resumeTask(st, s) ==
    IF ~AssertRunning(st, s) THEN AssertFailed(st, s)
    ELSE Send(st, s)

\* nextTask that forgets inputIndex++
nextTask_NoAdvance(st, s) ==
    IF ~AssertRunning(st, s) THEN AssertFailed(st, s)
    ELSE LET t == IF st.inputIndex < nInputs THEN st.inputIndex + 1 ELSE NoInput
         IN  Send([st EXCEPT !.currentInput[s] = t,
                             !.calls.handleStart = Append(@, t)], s)

\* nextTask that sends the task twice
nextTask_SendsTwice(st, s) ==
    IF ~AssertRunning(st, s) THEN AssertFailed(st, s)
    ELSE LET t == IF st.inputIndex < nInputs THEN st.inputIndex + 1 ELSE NoInput
         IN  Send(Send([st EXCEPT !.currentInput[s] = t,
                                  !.inputIndex = @ + 1,
                                  !.calls.handleStart = Append(@, t)], s), s)

nextTask(st, s) ==
    IF ~AssertRunning(st, s) THEN AssertFailed(st, s)
    ELSE LET t == IF st.inputIndex < nInputs THEN st.inputIndex + 1 ELSE NoInput
         IN  Send([st EXCEPT !.currentInput[s] = t,
                             !.inputIndex = @ + 1,
                             !.calls.handleStart = Append(@, t)], s)

TaskAction(st, s, taskAction) ==
    IF taskAction = "nextTask" THEN nextTask(st, s) ELSE resumeTask(st, s)

\* startChild that forgets runningChildren.add(child)
startChild_NoAdd(st, s, taskAction, argv, forkOk) ==
    LET st1 == [st EXCEPT !.calls.fork[s] = @ + 1]
    IN  IF ~forkOk THEN fail(st1)
        ELSE LET c == <<s, st1.calls.fork[s]>>
             IN  TaskAction([st1 EXCEPT !.child[s] = c,
                                        !.procs = (c :> NewChild(argv)) @@ @],
                            s, taskAction)

\* forkOk = FALSE: fork() throws
startChild(st, s, taskAction, argv, forkOk) ==
    LET st1 == [st EXCEPT !.calls.fork[s] = @ + 1]
    IN  IF ~forkOk THEN fail(st1)
        ELSE LET c == <<s, st1.calls.fork[s]>>
             IN  TaskAction([st1 EXCEPT !.child[s] = c,
                                        !.runningChildren = @ \cup {c},
                                        !.procs = (c :> NewChild(argv)) @@ @],
                            s, taskAction)

\* stopChild that resolves whenever a slot is done, not only the last one
stopChild_AlwaysResolves(st, s, done) ==
    IF ~AssertRunning(st, s) THEN AssertFailed(st, s)
    ELSE LET c == st.child[s]
             st1 == IF done THEN Resolve([st EXCEPT !.processesLeft = @ - 1]) ELSE st
         IN  [st1 EXCEPT !.runningChildren = @ \ {c},
                         !.procs[c] = Kill(RemoveAllListeners(@))]

\* stopChild that compares processesLeft with 0 before decrementing it
stopChild_ResolvesLate(st, s, done) ==
    IF ~AssertRunning(st, s) THEN AssertFailed(st, s)
    ELSE LET c == st.child[s]
             st1 == IF done
                    THEN LET st2 == IF st.processesLeft = 0 THEN Resolve(st) ELSE st
                         IN  [st2 EXCEPT !.processesLeft = @ - 1]
                    ELSE st
         IN  [st1 EXCEPT !.runningChildren = @ \ {c},
                         !.procs[c] = Kill(RemoveAllListeners(@))]

stopChild(st, s, done) ==
    IF ~AssertRunning(st, s) THEN AssertFailed(st, s)
    ELSE LET c == st.child[s]
             st1 == IF done
                    THEN LET st2 == [st EXCEPT !.processesLeft = @ - 1]
                         IN  IF st2.processesLeft = 0 THEN Resolve(st2) ELSE st2
                    ELSE st
         IN  [st1 EXCEPT !.runningChildren = @ \ {c},
                         !.procs[c] = Kill(RemoveAllListeners(@))]

\* restartChild that forks the new child without stopping the old one
restartChild_NoStop(st, s, taskAction, argv, forkOk) ==
    IF ~AssertRunning(st, s) THEN AssertFailed(st, s)
    ELSE startChild(st, s, taskAction, argv, forkOk)

restartChild(st, s, taskAction, argv, forkOk) ==
    IF ~AssertRunning(st, s) THEN AssertFailed(st, s)
    ELSE startChild(stopChild(st, s, FALSE), s, taskAction, argv, forkOk)

\* handleOutput that does not look at expectedFailures
handleOutput_IgnoresExpected(st, t) ==
    IF t \notin Tasks THEN st
    ELSE LET path == testedPackages[t]
             st1 == [st EXCEPT !.calls.handleOutput[t] = @ + 1]
         IN  IF status[path] = "OK" THEN st1
             ELSE [st1 EXCEPT !.allFailures = Append(@, <<path, status[path]>>)]

\* handleOutput(outputMessage, processIndex), for the result of task t: the
\* message carries the path and the status of the package.
handleOutput(st, t) ==
    IF t \notin Tasks THEN st
    ELSE LET path == testedPackages[t]
             st1 == [st EXCEPT !.calls.handleOutput[t] = @ + 1]
             pushed == [st1 EXCEPT !.allFailures = Append(@, <<path, status[path]>>)]
         IN  IF path \in expectedFailures
             THEN IF status[path] = "OK" THEN pushed ELSE st1
             ELSE IF status[path] = "OK" THEN st1 ELSE pushed

\* handleCrash that is only told of a task that is given up
handleCrash_OnlyCrashed(st, s) ==
    LET t == st.currentInput[s]
        state == st.crashRecoveryState[s]
    IN  IF t \notin Tasks \/ state # Crashed THEN st
        ELSE [st EXCEPT !.calls.handleCrash[t][state] = @ + 1,
                        !.allFailures = Append(@, <<testedPackages[t], "Out of memory">>)]

\* handleCrash(currentInput, crashRecoveryState, processIndex)
handleCrash(st, s) ==
    LET t == st.currentInput[s]
        state == st.crashRecoveryState[s]
    IN  IF t \notin Tasks THEN st
        ELSE LET st1 == [st EXCEPT !.calls.handleCrash[t][state] = @ + 1]
             IN  IF state = Crashed
                 THEN [st1 EXCEPT !.allFailures =
                          Append(@, <<testedPackages[t], "Out of memory">>)]
                 ELSE st1

\* onMessage that, after a retry succeeded, restarts the child with resumeTask
onMessage_ResumesAfterRetry(st, s, t, throws, forkOk) ==
    LET oldCrashRecoveryState == st.crashRecoveryState[s]
        st1 == handleOutput([st EXCEPT !.crashRecoveryState[s] = Normal], t)
    IN  IF throws THEN onError(st1, s)
        ELSE IF st1.inputIndex = nInputs THEN stopChild(st1, s, TRUE)
        ELSE IF oldCrashRecoveryState # Normal
             THEN restartChild(st1, s, "resumeTask", execArgv, forkOk)
        ELSE nextTask(st1, s)

\* onMessage that leaves crashRecoveryState as it was
onMessage_KeepsState(st, s, t, throws, forkOk) ==
    LET oldCrashRecoveryState == st.crashRecoveryState[s]
        st1 == handleOutput(st, t)
    IN  IF throws THEN onError(st1, s)
        ELSE IF st1.inputIndex = nInputs THEN stopChild(st1, s, TRUE)
        ELSE IF oldCrashRecoveryState # Normal
             THEN restartChild(st1, s, "nextTask", execArgv, forkOk)
        ELSE nextTask(st1, s)

\* onMessage that retires the slot while another slot's worker is running
onMessage_StopsWhenOthersRun(st, s, t, throws, forkOk) ==
    LET oldCrashRecoveryState == st.crashRecoveryState[s]
        st1 == handleOutput([st EXCEPT !.crashRecoveryState[s] = Normal], t)
    IN  IF throws THEN onError(st1, s)
        ELSE IF st1.inputIndex = nInputs \/ st1.runningChildren # {st1.child[s]}
             THEN stopChild(st1, s, TRUE)
        ELSE IF oldCrashRecoveryState # Normal
             THEN restartChild(st1, s, "nextTask", execArgv, forkOk)
        ELSE nextTask(st1, s)

\* onMessage that keeps the process after a retry succeeded
onMessage_NoRestart(st, s, t, throws, forkOk) ==
    LET st1 == handleOutput([st EXCEPT !.crashRecoveryState[s] = Normal], t)
    IN  IF throws THEN onError(st1, s)
        ELSE IF st1.inputIndex = nInputs THEN stopChild(st1, s, TRUE)
        ELSE nextTask(st1, s)

\* t: the task whose result the message carries; throws: handleOutput throws
onMessage(st, s, t, throws, forkOk) ==
    LET oldCrashRecoveryState == st.crashRecoveryState[s]
        st1 == handleOutput([st EXCEPT !.crashRecoveryState[s] = Normal], t)
    IN  IF throws THEN onError(st1, s)
        ELSE IF st1.inputIndex = nInputs THEN stopChild(st1, s, TRUE)
        ELSE IF oldCrashRecoveryState # Normal
             THEN restartChild(st1, s, "nextTask", execArgv, forkOk)
        ELSE nextTask(st1, s)

\* AfterCrash that compares with <= instead of <
AfterCrash_LessOrEqual(state) ==
    IF crashRecovery
    THEN CASE state = Normal -> Retry
           [] state = Retry ->
                IF maxOldSpaceSize <= crashRecoveryMaxOldSpaceSize
                THEN RetryWithMoreMemory ELSE Crashed
           [] OTHER -> Crashed
    ELSE Crashed

\* AfterCrash whose default case retries once more
AfterCrash_RetriesAgain(state) ==
    IF crashRecovery
    THEN CASE state = Normal -> Retry
           [] state = Retry ->
                IF maxOldSpaceSize < crashRecoveryMaxOldSpaceSize
                THEN RetryWithMoreMemory ELSE Crashed
           [] OTHER -> Retry
    ELSE Crashed

\* AfterCrash that gives up at the second crash
AfterCrash_SkipsMoreMemory(state) ==
    IF crashRecovery
    THEN CASE state = Normal -> Retry
           [] OTHER -> Crashed
    ELSE Crashed

\* AfterCrash that retries whether or not crash recovery is on
AfterCrash_IgnoresDisabled(state) ==
    CASE state = Normal -> Retry
      [] state = Retry ->
           IF maxOldSpaceSize < crashRecoveryMaxOldSpaceSize
           THEN RetryWithMoreMemory ELSE Crashed
      [] OTHER -> Crashed

\* AfterCrash that escalates after the second crash whatever the ceiling
AfterCrash_AlwaysEscalates(state) ==
    IF crashRecovery
    THEN CASE state = Normal -> Retry
           [] state = Retry -> RetryWithMoreMemory
           [] OTHER -> Crashed
    ELSE Crashed

\* The first switch of onClose: the slot's state after one more crash.
AfterCrash(state) ==
    IF crashRecovery
    THEN CASE state = Normal -> Retry
           [] state = Retry ->
                IF maxOldSpaceSize < crashRecoveryMaxOldSpaceSize
                THEN RetryWithMoreMemory ELSE Crashed
           [] OTHER -> Crashed
    ELSE Crashed

\* The argv of the process that retries with more memory.
MoreMemoryArgv ==
    Append(getExecArgvWithoutMaxOldSpaceSize(execArgv),
           FlagEq(crashRecoveryMaxOldSpaceSize, TRUE))

\* CrashAction that, on the first crash, goes on to the next task
CrashAction_RetryNextTask(state) ==
    CASE state = Retry -> [taskAction |-> "nextTask", execArgv |-> execArgv]
      [] state = RetryWithMoreMemory ->
            [taskAction |-> "resumeTask", execArgv |-> MoreMemoryArgv]
      [] state = Crashed -> [taskAction |-> "nextTask", execArgv |-> execArgv]
      [] OTHER -> [taskAction |-> "assert.fail", execArgv |-> <<>>]

\* The second switch of onClose: what the slot does in its new state, as the
\* task action and the execArgv of the process it starts.
CrashAction(state) ==
    CASE state = Retry -> [taskAction |-> "resumeTask", execArgv |-> execArgv]
      [] state = RetryWithMoreMemory ->
            [taskAction |-> "resumeTask", execArgv |-> MoreMemoryArgv]
      [] state = Crashed -> [taskAction |-> "nextTask", execArgv |-> execArgv]
      [] OTHER -> [taskAction |-> "assert.fail", execArgv |-> <<>>]

\* onClose that, after a Crashed task with no task left, stops the process
\* without retiring the slot
onClose_CrashedStalls(st, s, throws, forkOk) ==
    IF st.rejected \/ st.child[s] \notin st.runningChildren THEN st
    ELSE LET st1 == [st EXCEPT !.crashRecoveryState[s] = AfterCrash(@)]
             st2 == handleCrash(st1, s)
             state == st2.crashRecoveryState[s]
             do == CrashAction(state)
         IN  IF throws THEN onError(st2, s)
             ELSE IF do.taskAction = "assert.fail" THEN AssertFailed(st2, s)
             ELSE IF state = Crashed
                  THEN LET st3 == [st2 EXCEPT !.crashRecoveryState[s] = Normal]
                       IN  IF st3.inputIndex = nInputs THEN stopChild(st3, s, FALSE)
                           ELSE restartChild(st3, s, do.taskAction, do.execArgv, forkOk)
             ELSE restartChild(st2, s, do.taskAction, do.execArgv, forkOk)

\* onClose without the test runningChildren.has(child)
onClose_NoRunningCheck(st, s, throws, forkOk) ==
    IF st.rejected THEN st
    ELSE LET st1 == [st EXCEPT !.crashRecoveryState[s] = AfterCrash(@)]
             st2 == handleCrash(st1, s)
             state == st2.crashRecoveryState[s]
             do == CrashAction(state)
         IN  IF throws THEN onError(st2, s)
             ELSE IF do.taskAction = "assert.fail" THEN AssertFailed(st2, s)
             ELSE IF state = Crashed
                  THEN LET st3 == [st2 EXCEPT !.crashRecoveryState[s] = Normal]
                       IN  IF st3.inputIndex = nInputs THEN stopChild(st3, s, TRUE)
                           ELSE restartChild(st3, s, do.taskAction, do.execArgv, forkOk)
             ELSE restartChild(st2, s, do.taskAction, do.execArgv, forkOk)

\* onClose that leaves the slot in Crashed
onClose_KeepsCrashed(st, s, throws, forkOk) ==
    IF st.rejected \/ st.child[s] \notin st.runningChildren THEN st
    ELSE LET st1 == [st EXCEPT !.crashRecoveryState[s] = AfterCrash(@)]
             st2 == handleCrash(st1, s)
             state == st2.crashRecoveryState[s]
             do == CrashAction(state)
         IN  IF throws THEN onError(st2, s)
             ELSE IF do.taskAction = "assert.fail" THEN AssertFailed(st2, s)
             ELSE IF state = Crashed
                  THEN IF st2.inputIndex = nInputs THEN stopChild(st2, s, TRUE)
                       ELSE restartChild(st2, s, do.taskAction, do.execArgv, forkOk)
             ELSE restartChild(st2, s, do.taskAction, do.execArgv, forkOk)

\* throws: handleCrash throws
onClose(st, s, throws, forkOk) ==
    IF st.rejected \/ st.child[s] \notin st.runningChildren THEN st
    ELSE LET st1 == [st EXCEPT !.crashRecoveryState[s] = AfterCrash(@)]
             st2 == handleCrash(st1, s)
             state == st2.crashRecoveryState[s]
             do == CrashAction(state)
         IN  IF throws THEN onError(st2, s)
             ELSE IF do.taskAction = "assert.fail" THEN AssertFailed(st2, s)
             ELSE IF state = Crashed
                  THEN LET st3 == [st2 EXCEPT !.crashRecoveryState[s] = Normal]
                       IN  IF st3.inputIndex = nInputs THEN stopChild(st3, s, TRUE)
                           ELSE restartChild(st3, s, do.taskAction, do.execArgv, forkOk)
             ELSE restartChild(st2, s, do.taskAction, do.execArgv, forkOk)

\* onChildClosed without the test !closed
onChildClosed_IgnoresClosed(st, c, throws, forkOk) ==
    IF st.child[c[1]] = c
    THEN onClose([st EXCEPT !.procs[c].closed = TRUE, !.procs[c].onClose = @ + 1],
                 c[1], throws, forkOk)
    ELSE st

\* onChildClosed without the test child === thisChild
onChildClosed_IgnoresThisChild(st, c, throws, forkOk) ==
    IF ~st.procs[c].closed
    THEN onClose([st EXCEPT !.procs[c].closed = TRUE, !.procs[c].onClose = @ + 1],
                 c[1], throws, forkOk)
    ELSE st

\* onChildClosed of the child c of slot c[1]; onClose counts the calls of
\* onClose made for c
onChildClosed(st, c, throws, forkOk) ==
    IF ~st.procs[c].closed /\ st.child[c[1]] = c
    THEN onClose([st EXCEPT !.procs[c].closed = TRUE, !.procs[c].onClose = @ + 1],
                 c[1], throws, forkOk)
    ELSE st

\* onChildDisconnectedOrExited of the child c
onChildDisconnectedOrExited(st, c) ==
    IF ~st.procs[c].closed /\ st.child[c[1]] = c
    THEN [st EXCEPT !.procs[c].timer = TRUE]
    ELSE st

\* ------------------------------------------------------------------- Init
NoCalls ==
    [resolve |-> 0, reject |-> 0, assertFailed |-> FALSE,
     fork |-> [s \in Slots |-> 0],
     send |-> [t \in Tasks |-> 0],
     handleStart |-> <<>>,
     handleOutput |-> [t \in Tasks |-> 0],
     handleCrash |-> [t \in Tasks |-> [st \in CrashRecoveryState |-> 0]]]

\* The packages are named by their position in the list getAllPackages
\* returns.
Packages(n) == [k \in 1..n |-> k]

\* The state when runWithListeningChildProcesses is called with one of the
\* given options, on at most maxProcs processes.
InitRun(options, maxProcs) ==
    /\ nInputs = Len(testedPackages)
    /\ nProcesses \in 1..maxProcs
    /\ \E o \in options :
          /\ crashRecovery = o.crashRecovery
          /\ crashRecoveryMaxOldSpaceSize = o.ceiling
          /\ execArgv = o.execArgv
    /\ allFailures = <<>>
    /\ result = Undefined
    /\ i = 0
    /\ inputIndex = 0
    /\ processesLeft = nProcesses
    /\ rejected = FALSE
    /\ runningChildren = {}
    /\ child = [s \in Slots |-> NoChild]
    /\ crashRecoveryState = [s \in Slots |-> Normal]
    /\ currentInput = [s \in Slots |-> NoInput]
    /\ procs = <<>>
    /\ settled = "pending"
    /\ calls = NoCalls
    /\ nCrashes = 0
    /\ nAtATime = NotCalled
    /\ legacy = NotCalled

\* The runs on at most maxTasks packages that all pass, without sharding.
InitWith(maxTasks, maxProcs) ==
    /\ allPackages \in {Packages(n) : n \in 0..maxTasks}
    /\ sharding = NoSharding
    /\ expectedFailures = {}
    /\ status = [p \in Range(testedPackages) |-> "OK"]
    /\ InitRun(OptionChoices, maxProcs)

Init == InitWith(MaxTasks, MaxProcs)

InitLive == InitWith(LiveMaxTasks, LiveMaxProcs)

\* The shards main may be asked to test: id of count.
Shardings == {[id |-> id, count |-> count] : id \in 1..MaxShards, count \in 1..MaxShards}

\* Every shard of every count that tells lists of MaxPackages packages apart.
AllShardings ==
    {[id |-> id, count |-> count] : id \in 1..(MaxPackages + 1),
                                    count \in 1..(MaxPackages + 1)}

\* What main passes: recovery on, no retry with more memory.
MainOptions == {Opt(TRUE, 0, <<>>)}

\* The runs of main that test at most MainMaxTasks packages: any shard or
\* none, any of the tested packages expected to fail, any status per tested
\* package.
InitMain ==
    /\ allPackages \in {Packages(n) : n \in 0..MaxPackages}
    /\ sharding \in {NoSharding} \cup Shardings
    /\ Len(testedPackages) <= MainMaxTasks
    /\ expectedFailures \in SUBSET Range(testedPackages)
    /\ status \in [Range(testedPackages) -> Statuses]
    /\ InitRun(MainOptions, MainMaxProcs)

\* ---------------------------------------------------------------- actions
\* What can go wrong inside a handler: nothing, the handler passed in by the
\* caller throws, or fork() throws.
Outcomes == {"ok", "throws", "forkFails"}

\* One iteration of `for (let i = 0; i < nProcesses; i++)`.
StartSlot(forkOk) ==
    /\ i < nProcesses
    /\ i' = i + 1
    /\ IF inputIndex = nInputs
       THEN Commit([State EXCEPT !.processesLeft = @ - 1])
       ELSE Commit(startChild(State, i + 1, "nextTask", execArgv, forkOk))
    /\ UNCHANGED <<nCrashes, result>>

LoopDone == i = nProcesses

\* 'message': the worker of c answers the oldest task it was sent.  A worker
\* that has ended may have answered before: its message is delivered as long
\* as the channel has not been seen closed ('disconnect').
Message(c, outcome) ==
    /\ LoopDone
    /\ procs[c].listening /\ procs[c].inbox # <<>>
    /\ procs[c].alive \/ "disconnect" \in procs[c].pending
    /\ LET t == Head(procs[c].inbox)
           st == [State EXCEPT !.procs[c].inbox = Tail(@)]
       IN  Commit(onMessage(st, c[1], t, outcome = "throws", outcome # "forkFails"))
    /\ UNCHANGED <<i, nCrashes, result>>

\* The worker of c ends on its own, if it had not yet.
Ends(c) ==
    IF procs[c].alive
    THEN nCrashes < MaxCrashes /\ nCrashes' = nCrashes + 1
    ELSE UNCHANGED nCrashes

\* 'exit' or 'disconnect': the worker of c has ended.
DisconnectOrExit(c, ev) ==
    /\ LoopDone
    /\ procs[c].listening /\ ev \in procs[c].pending
    /\ Ends(c)
    /\ LET st == [State EXCEPT !.procs[c].alive = FALSE,
                               !.procs[c].pending = @ \ {ev}]
       IN  Commit(onChildDisconnectedOrExited(st, c))
    /\ UNCHANGED <<i, result>>

\* 'close': emitted once the process has exited and its streams are closed.
Close(c, outcome) ==
    /\ LoopDone
    /\ procs[c].listening /\ "close" \in procs[c].pending /\ "exit" \notin procs[c].pending
    /\ LET st == [State EXCEPT !.procs[c].pending = @ \ {"close"}]
       IN  Commit(onChildClosed(st, c, outcome = "throws", outcome # "forkFails"))
    /\ UNCHANGED <<i, nCrashes, result>>

\* A timer set by onChildDisconnectedOrExited runs onChildClosed.  The state
\* keeps that a timer of c was set, not how many are still due: a timer may
\* run at any later time, and more often than it was set, which only adds
\* behaviours to those of the code.
Timer(c, outcome) ==
    /\ LoopDone
    /\ procs[c].timer
    /\ Commit(onChildClosed(State, c, outcome = "throws", outcome # "forkFails"))
    /\ UNCHANGED <<i, nCrashes, result>>

\* 'error': the process could not be spawned or killed.
ChildError(c) ==
    /\ LoopDone
    /\ procs[c].listening
    /\ Commit(onError(State, c[1]))
    /\ UNCHANGED <<i, nCrashes, result>>

\* 'error': a message could not be sent to the process.
SendError(c) ==
    /\ LoopDone
    /\ procs[c].listening /\ procs[c].sendFailed
    /\ Commit(onError([State EXCEPT !.procs[c].sendFailed = FALSE], c[1]))
    /\ UNCHANGED <<i, nCrashes, result>>

\* main, once the promise of runWithListeningChildProcesses has resolved:
\* it returns 0, or the number of failures.
MainReturn ==
    /\ settled = "resolved" /\ result = Undefined
    /\ result' = IF Len(allFailures) = 0 THEN 0 ELSE Len(allFailures)
    /\ UNCHANGED <<optVars, otherVars, allFailures, i, inputIndex, processesLeft,
                   rejected, runningChildren, child, crashRecoveryState, currentInput,
                   procs, settled, calls, nCrashes>>

Next ==
    \/ \E forkOk \in BOOLEAN : StartSlot(forkOk)
    \/ \E c \in DOMAIN procs, outcome \in Outcomes : Message(c, outcome)
    \/ \E c \in DOMAIN procs, ev \in {"exit", "disconnect"} : DisconnectOrExit(c, ev)
    \/ \E c \in DOMAIN procs, outcome \in Outcomes : Close(c, outcome)
    \/ \E c \in DOMAIN procs, outcome \in Outcomes : Timer(c, outcome)
    \/ \E c \in DOMAIN procs : ChildError(c)
    \/ \E c \in DOMAIN procs : SendError(c)
    \/ MainReturn

Spec == Init /\ [][Next]_vars


\* The run when nothing goes wrong but workers crashing: fork() succeeds, no
\* handler throws and no child emits 'error'.
NextNoFail ==
    \/ StartSlot(TRUE)
    \/ \E c \in DOMAIN procs : Message(c, "ok")
    \/ \E c \in DOMAIN procs, ev \in {"exit", "disconnect"} : DisconnectOrExit(c, ev)
    \/ \E c \in DOMAIN procs : Close(c, "ok")
    \/ \E c \in DOMAIN procs : Timer(c, "ok")
    \/ MainReturn

\* The event loop runs every handler whose event is due, and every worker
\* sooner or later answers or ends.
LiveSpec == InitLive /\ [][NextNoFail]_vars /\ WF_vars(NextNoFail)

\* The runs of one task on one process, with crash recovery on, a ceiling of
\* zero or the default, and any process.execArgv.
ArgvOptions ==
    {Opt(TRUE, ceiling, argv) :
        ceiling \in {0, DEFAULT_CRASH_RECOVERY_MAX_OLD_SPACE_SIZE},
        argv \in ArgvLists(MaxArgvLen)}

InitArgv ==
    /\ allPackages = Packages(1)
    /\ sharding = NoSharding
    /\ expectedFailures = {}
    /\ status = [p \in Range(testedPackages) |-> "OK"]
    /\ InitRun(ArgvOptions, 1)

ArgvSpec == InitArgv /\ [][NextNoFail]_vars

\* The run in which the first worker of slot 1 hangs: it never answers and
\* never ends, so none of its events occurs; nothing else fails, and the
\* other workers sooner or later answer or end.
HungChild == <<1, 1>>

NextHang ==
    \/ StartSlot(TRUE)
    \/ \E c \in DOMAIN procs \ {HungChild} : Message(c, "ok")
    \/ \E c \in DOMAIN procs \ {HungChild}, ev \in {"exit", "disconnect"} :
          DisconnectOrExit(c, ev)
    \/ \E c \in DOMAIN procs \ {HungChild} : Close(c, "ok")
    \/ \E c \in DOMAIN procs \ {HungChild} : Timer(c, "ok")

InitHang == InitWith(HangMaxTasks, HangMaxProcs)

HangSpec == InitHang /\ [][NextHang]_vars /\ WF_vars(NextHang)

\* The run in which the only thing that goes wrong is workers ending on their
\* own, with what follows from it: a send to a worker that has ended fails.
NextCrashOnly ==
    \/ NextNoFail
    \/ \E c \in DOMAIN procs : SendError(c)

CrashOnlySpec == Init /\ [][NextCrashOnly]_vars

\* The runs of main on a shard of at most MainMaxTasks packages that all pass.
InitShard ==
    /\ allPackages \in {Packages(n) : n \in 0..MaxPackages}
    /\ sharding \in {NoSharding} \cup AllShardings
    /\ Len(testedPackages) <= MainMaxTasks
    /\ expectedFailures = {}
    /\ status = [p \in Range(testedPackages) |-> "OK"]
    /\ InitRun(MainOptions, MainMaxProcs)

ShardSpec == InitShard /\ [][NextNoFail]_vars

\* main, from its call of runWithListeningChildProcesses to its return: a run
\* that ends in a fatal error makes main reject and return nothing.
MainSpec == InitMain /\ [][NextNoFail]_vars

\* --------------------------------------------------------------- nAtATime
\* The runner with crash recovery is not running: its variables rest.
RunnerNotCalled ==
    /\ allPackages = <<>> /\ sharding = NoSharding /\ expectedFailures = {}
    /\ status = <<>>
    /\ nInputs = 0 /\ nProcesses = 1
    /\ crashRecovery = FALSE /\ crashRecoveryMaxOldSpaceSize = 0 /\ execArgv = <<>>
    /\ allFailures = <<>> /\ result = Undefined
    /\ i = 0 /\ inputIndex = 0 /\ processesLeft = 0 /\ rejected = FALSE
    /\ runningChildren = {}
    /\ child = [s \in Slots |-> NoChild]
    /\ crashRecoveryState = [s \in Slots |-> Normal]
    /\ currentInput = [s \in Slots |-> NoInput]
    /\ procs = <<>> /\ settled = "pending" /\ calls = NoCalls /\ nCrashes = 0

\* What use can resolve with, and the hole of new Array(length).
Outputs == {"x", "y"}
NoResult == "undefined"

\* nAtATime(n, inputs, use) at its first statement.  The inputs are named by
\* their 1-based position; output[k] is what use(inputs[k - 1]) resolves
\* with, if it does.  made is initArray's i; workers holds the promises that
\* makeElement has returned; uses counts the calls of use, and inFlight holds
\* the inputs whose call has not settled.
NewNAtATime(n, length, output) ==
    [called |-> TRUE, n |-> n, length |-> length, output |-> output,
     results |-> [k \in 1..length |-> NoResult],
     nextIndex |-> 0,
     made |-> 0,
     workers |-> <<>>,
     uses |-> [k \in 1..length |-> 0],
     inFlight |-> {},
     settled |-> "pending",
     returned |-> NoResult]

\* The loop of the async function of worker w from its test to the next
\* await, or to its end.  index is 1-based here, 0-based in the source.
WorkerLoop(na, w) ==
    IF na.nextIndex # na.length
    THEN LET index == na.nextIndex + 1
         IN  [na EXCEPT !.nextIndex = @ + 1,
                        !.uses[index] = @ + 1,
                        !.inFlight = @ \cup {index},
                        !.workers[w] = [pc |-> "await", index |-> index]]
    ELSE [na EXCEPT !.workers[w] = [pc |-> "fulfilled", index |-> 0]]

\* The continuation of await use(...) that stores the output at the cursor
AwaitReturns_StoresAtNextIndex(na, w) ==
    LET index == na.workers[w].index
        at == IF na.nextIndex = na.length THEN na.length ELSE na.nextIndex + 1
    IN  WorkerLoop([na EXCEPT !.results[at] = na.output[index],
                              !.inFlight = @ \ {index}], w)

\* The continuation of await use(inputs[index]): results[index] = output,
\* and the loop goes on.
AwaitReturns(na, w) ==
    LET index == na.workers[w].index
    IN  WorkerLoop([na EXCEPT !.results[index] = na.output[index],
                              !.inFlight = @ \ {index}], w)

\* await use(inputs[index]) throws: the async function of worker w ends,
\* its promise rejected.
AwaitThrows(na, w) ==
    [na EXCEPT !.inFlight = @ \ {na.workers[w].index},
               !.workers[w].pc = "rejected"]

\* One turn of initArray's loop: arr[i] = makeElement(), which runs the async
\* function up to its first await.
makeElement(na) ==
    LET w == Len(na.workers) + 1
    IN  WorkerLoop([na EXCEPT !.made = @ + 1,
                              !.workers = Append(@, [pc |-> "start", index |-> 0])], w)

\* await Promise.all(workers); return results
PromiseAll(na) ==
    IF \E w \in DOMAIN na.workers : na.workers[w].pc = "rejected"
    THEN [na EXCEPT !.settled = "rejected"]
    ELSE [na EXCEPT !.settled = "resolved", !.returned = na.results]

MakeElement ==
    /\ nAtATime.made < nAtATime.n
    /\ nAtATime' = makeElement(nAtATime)
    /\ UNCHANGED <<runVars, legacy>>

UseResolves(w) ==
    /\ nAtATime.made = nAtATime.n
    /\ nAtATime.workers[w].pc = "await"
    /\ nAtATime' = AwaitReturns(nAtATime, w)
    /\ UNCHANGED <<runVars, legacy>>

UseRejects(w) ==
    /\ nAtATime.made = nAtATime.n
    /\ nAtATime.workers[w].pc = "await"
    /\ nAtATime' = AwaitThrows(nAtATime, w)
    /\ UNCHANGED <<runVars, legacy>>

PromiseAllSettles ==
    /\ nAtATime.made = nAtATime.n
    /\ nAtATime.settled = "pending"
    /\ \/ \E w \in DOMAIN nAtATime.workers : nAtATime.workers[w].pc = "rejected"
       \/ \A w \in DOMAIN nAtATime.workers : nAtATime.workers[w].pc = "fulfilled"
    /\ nAtATime' = PromiseAll(nAtATime)
    /\ UNCHANGED <<runVars, legacy>>

InitNAtATime ==
    /\ RunnerNotCalled
    /\ legacy = NotCalled
    /\ \E n \in 0..NatMaxN, length \in 0..NatMaxInputs :
          \E output \in [1..length -> Outputs] :
             nAtATime = NewNAtATime(n, length, output)

NextNAtATime ==
    \/ MakeElement
    \/ \E w \in DOMAIN nAtATime.workers : UseResolves(w)
    \/ \E w \in DOMAIN nAtATime.workers : UseRejects(w)
    \/ PromiseAllSettles

\* Every call of use settles sooner or later, and so does Promise.all.
NAtATimeSpec == InitNAtATime /\ [][NextNAtATime]_vars /\ WF_vars(NextNAtATime)

\* ------------------------------------- the runner without crash recovery
\* runWithListeningChildProcesses of src/src/index.ts when its promise is
\* made.  The inputs are named by their 1-based position.  allChildren holds,
\* for each ChildProcess, whether its worker runs, the tasks it was sent and
\* has not answered, the events it has yet to emit, and whether a send to it
\* failed; no listener is ever removed.  handleOutput counts the calls per
\* task.
NewLegacy(length, n) ==
    [called |-> TRUE, length |-> length, nProcesses |-> n,
     i |-> 0, inputIndex |-> 0, processesLeft |-> n, rejected |-> FALSE,
     allChildren |-> <<>>,
     settled |-> "pending",
     handleOutput |-> [t \in 1..length |-> 0],
     assertFailed |-> FALSE]

\* fork(...) and child.send(inputs[inputIndex]) of the start loop
NewLegacyChild(t) ==
    [alive |-> TRUE, inbox |-> <<t>>, pending |-> {"disconnect", "close"},
     sendFailed |-> FALSE]

\* child.kill(): the worker ends; its 'disconnect' and 'close' are still
\* to come.
LegacyKill(p) == [p EXCEPT !.alive = FALSE, !.inbox = <<>>, !.sendFailed = FALSE]

\* child.send(inputs[inputIndex]); inputIndex++
LegacySend(lg, c) ==
    [lg EXCEPT !.allChildren[c].inbox =
                   IF lg.allChildren[c].alive THEN Append(@, lg.inputIndex + 1) ELSE @,
               !.allChildren[c].sendFailed =
                   IF lg.allChildren[c].alive THEN @ ELSE TRUE,
               !.inputIndex = @ + 1]

\* fail(), which does not look at rejected
LegacyFail(lg) ==
    [lg EXCEPT !.rejected = TRUE,
               !.allChildren = [c \in DOMAIN @ |-> LegacyKill(@[c])],
               !.settled = IF @ = "pending" THEN "rejected" ELSE @]

\* One turn of the start loop.
LegacyStartSlot(lg) ==
    IF lg.inputIndex = lg.length
    THEN [lg EXCEPT !.i = @ + 1, !.processesLeft = @ - 1]
    ELSE [lg EXCEPT !.i = @ + 1,
                    !.allChildren = Append(@, NewLegacyChild(lg.inputIndex + 1)),
                    !.inputIndex = @ + 1]

\* The 'message' listener of child c, for the result of task t.
LegacyOnMessage(lg, c, t) ==
    LET lg1 == [lg EXCEPT !.handleOutput[t] = @ + 1]
    IN  IF lg1.inputIndex = lg1.length
        THEN [lg1 EXCEPT !.processesLeft = @ - 1,
                         !.settled = IF lg1.processesLeft - 1 = 0 /\ @ = "pending"
                                     THEN "resolved" ELSE @,
                         !.allChildren[c] = LegacyKill(@)]
        ELSE LegacySend(lg1, c)

\* The 'disconnect' listener.
LegacyOnDisconnect(lg) ==
    IF lg.inputIndex # lg.length THEN LegacyFail(lg) ELSE lg

\* The 'close' listener: assert(rejected || inputIndex === inputs.length).
LegacyOnClose(lg) ==
    IF lg.rejected \/ lg.inputIndex = lg.length THEN lg
    ELSE [lg EXCEPT !.assertFailed = TRUE]

LegacyStart ==
    /\ legacy.i < legacy.nProcesses
    /\ legacy' = LegacyStartSlot(legacy)
    /\ UNCHANGED <<runVars, nAtATime>>

LegacyLoopDone == legacy.i = legacy.nProcesses

\* 'message': the worker of c answers the oldest task it was sent; the answer
\* of a worker that has ended since is delivered until its 'disconnect'.
LegacyMessage(c) ==
    /\ LegacyLoopDone
    /\ legacy.allChildren[c].inbox # <<>>
    /\ legacy.allChildren[c].alive \/ "disconnect" \in legacy.allChildren[c].pending
    /\ LET t == Head(legacy.allChildren[c].inbox)
       IN  legacy' = LegacyOnMessage([legacy EXCEPT !.allChildren[c].inbox = Tail(@)], c, t)
    /\ UNCHANGED <<runVars, nAtATime>>

\* 'disconnect' and 'close' of c, in either order: its worker has ended, on
\* its own if it was not killed.
LegacyDisconnect(c) ==
    /\ LegacyLoopDone
    /\ "disconnect" \in legacy.allChildren[c].pending
    /\ legacy' = LegacyOnDisconnect([legacy EXCEPT !.allChildren[c].alive = FALSE,
                                                   !.allChildren[c].inbox = <<>>,
                                                   !.allChildren[c].pending = @ \ {"disconnect"}])
    /\ UNCHANGED <<runVars, nAtATime>>

LegacyClose(c) ==
    /\ LegacyLoopDone
    /\ "close" \in legacy.allChildren[c].pending
    /\ legacy' = LegacyOnClose([legacy EXCEPT !.allChildren[c].alive = FALSE,
                                              !.allChildren[c].pending = @ \ {"close"}])
    /\ UNCHANGED <<runVars, nAtATime>>

\* 'error': a message could not be sent to c.
LegacyError(c) ==
    /\ LegacyLoopDone
    /\ legacy.allChildren[c].sendFailed
    /\ legacy' = LegacyFail([legacy EXCEPT !.allChildren[c].sendFailed = FALSE])
    /\ UNCHANGED <<runVars, nAtATime>>

InitLegacy ==
    /\ RunnerNotCalled
    /\ nAtATime = NotCalled
    /\ \E length \in 0..LegacyMaxTasks, n \in 1..LegacyMaxProcs :
          legacy = NewLegacy(length, n)

NextLegacy ==
    \/ LegacyStart
    \/ \E c \in DOMAIN legacy.allChildren : LegacyMessage(c)
    \/ \E c \in DOMAIN legacy.allChildren : LegacyDisconnect(c)
    \/ \E c \in DOMAIN legacy.allChildren : LegacyClose(c)
    \/ \E c \in DOMAIN legacy.allChildren : LegacyError(c)

\* Every worker sooner or later answers or ends, and every event that is due
\* is delivered.
LegacySpec == InitLegacy /\ [][NextLegacy]_vars /\ WF_vars(NextLegacy)

\* ----------------------------------------------------------------- claims
Min(a, b) == IF a < b THEN a ELSE b

\* How often task t was reported: its result handed to handleOutput, or
\* handleCrash called for it with Crashed.
Reported(t) == calls.handleOutput[t] + calls.handleCrash[t][Crashed]

AllReportedOnce == \A t \in Tasks : Reported(t) = 1

\* How often a worker crashed on task t: every handled crash calls handleCrash.
CrashCount(t) ==
    calls.handleCrash[t][Retry] + calls.handleCrash[t][RetryWithMoreMemory]
        + calls.handleCrash[t][Crashed]

\* This step ran onClose for the child of slot s past its first return.
CrashHandled(s) ==
    /\ child[s] \in DOMAIN procs
    /\ ~procs[child[s]].closed /\ procs'[child[s]].closed
    /\ ~rejected /\ child[s] \in runningChildren

\* This step replaced the child of slot s by a new process started with argv
\* and sent it the task t, and nothing else was sent or claimed.
Resent(s, t, argv) ==
    /\ child'[s] # child[s]
    /\ ~procs'[child[s]].alive /\ ~procs'[child[s]].listening
    /\ child[s] \notin runningChildren' /\ child'[s] \in runningChildren'
    /\ procs'[child'[s]].alive /\ procs'[child'[s]].listening
    /\ procs'[child'[s]].execArgv = argv
    /\ procs'[child'[s]].inbox = <<t>>
    /\ currentInput' = currentInput
    /\ inputIndex' = inputIndex
    /\ calls'.handleStart = calls.handleStart
    /\ calls'.send = [calls.send EXCEPT ![t] = @ + 1]

\* C1: in a run that has resolved, every task was reported exactly once:
\* by one handleOutput call with its result or by one handleCrash call with
\* Crashed, never both and never neither.
C1_EveryTaskReportedOnce == settled = "resolved" => AllReportedOnce

C1_Witness ==
    /\ settled = "resolved" /\ nInputs >= 3 /\ nProcesses >= 2
    /\ \E t \in Tasks : calls.handleCrash[t][Crashed] = 1
    /\ \E t \in Tasks : calls.handleOutput[t] = 1 /\ CrashCount(t) = 1

\* The state and the step of C2.
C2_State ==
    /\ inputIndex <= nInputs
    /\ \A t \in Tasks :
          Cardinality({k \in DOMAIN calls.handleStart : calls.handleStart[k] = t})
              = IF t <= inputIndex THEN 1 ELSE 0
    /\ \A s1, s2 \in Slots :
          s1 # s2 /\ currentInput[s1] # NoInput => currentInput[s1] # currentInput[s2]
    /\ \A c \in DOMAIN procs :
          procs[c].inbox # <<>> =>
              c = child[c[1]] /\ procs[c].inbox = <<currentInput[c[1]]>>

C2_Step ==
    /\ inputIndex' \in {inputIndex, inputIndex + 1}
    /\ inputIndex' = inputIndex + 1 =>
          \E s \in Slots :
             /\ currentInput'[s] = inputIndex + 1
             /\ \A s2 \in Slots \ {s} : currentInput'[s2] = currentInput[s2]
    /\ inputIndex' = inputIndex => currentInput' = currentInput

\* C2: the cursor inputIndex moves by exactly one per claimed task and never
\* past the end, every task before the cursor was claimed (handleStart) exactly
\* once and no task after it, the slots' current tasks are pairwise distinct,
\* and a task waits in the inbox of at most one process: the current child of
\* the slot that claimed it.
C2_NoDoubleDispatch == []C2_State /\ [][C2_Step]_vars

C2_Witness ==
    /\ nInputs >= 3 /\ inputIndex = nInputs
    /\ \E s1, s2 \in Slots :
          /\ s1 # s2
          /\ child[s1] \in runningChildren /\ procs[child[s1]].inbox # <<>>
          /\ child[s2] \in runningChildren /\ procs[child[s2]].inbox # <<>>
          /\ calls.fork[s1] >= 2

\* The state and the step of C3.
C3_State ==
    /\ calls.resolve <= 1
    /\ ~(calls.resolve > 0 /\ calls.reject > 0)
    /\ calls.resolve = 1 <=> settled = "resolved"

C3_Step ==
    calls'.resolve # calls.resolve =>
        /\ processesLeft = 1 /\ processesLeft' = 0
        /\ inputIndex' = nInputs
        /\ runningChildren' = {}
        /\ \A c \in DOMAIN procs' : ~procs'[c].alive /\ ~procs'[c].listening
        /\ \A s \in Slots :
              currentInput'[s] # NoInput => (Reported(currentInput[s]))' = 1

\* C3: resolve() is called at most once, never in a run that called reject(),
\* and only in the step that takes processesLeft from 1 to 0; in that step the
\* cursor is at the end, no child is left running and every claimed task has
\* been reported.
C3_ResolvedOnceWhenAllRetired == []C3_State /\ [][C3_Step]_vars

C3_Witness ==
    /\ calls.resolve = 1 /\ nProcesses >= 2 /\ nInputs >= 3
    /\ \A s \in Slots : calls.fork[s] >= 1
    /\ nCrashes >= 1

C5_EmptyRunResolves ==
    (nInputs = 0 /\ LoopDone) => (procs = <<>> /\ settled = "resolved")

\* The slots that have a child, and the processes that are running.
StartedSlots == {s \in Slots : child[s] # NoChild}

Live == {c \in DOMAIN procs : procs[c].alive}

\* C6: no more than min(nProcesses, inputs.length) slots get a child, exactly
\* that many when no fork of the start loop threw; a slot never has two live
\* processes; and runningChildren, like the set of live processes, never has
\* more than min(nProcesses, inputs.length) members.
C6_PoolBound ==
    /\ Cardinality(StartedSlots) <= Min(nProcesses, nInputs)
    /\ (LoopDone /\ \A s \in Slots : calls.fork[s] > 0 => child[s] # NoChild)
          => Cardinality(StartedSlots) = Min(nProcesses, nInputs)
    /\ \A s \in Slots : Cardinality({c \in Live : c[1] = s}) <= 1
    /\ \A s \in Slots : Cardinality({c \in runningChildren : c[1] = s}) <= 1
    /\ Cardinality(runningChildren) <= Min(nProcesses, nInputs)
    /\ Cardinality(Live) <= Min(nProcesses, nInputs)

C6_Witness ==
    /\ nProcesses >= 2 /\ nInputs >= 3
    /\ Cardinality(runningChildren) = 2 /\ Cardinality(Live) = 2
    /\ \E s \in Slots : calls.fork[s] >= 3

\* The step of C7.
C7_Step ==
    \A s \in Slots :
        (CrashHandled(s) /\ crashRecovery /\ crashRecoveryState[s] = Normal /\ ~rejected')
        => /\ crashRecoveryState'[s] = Retry
           /\ Resent(s, currentInput[s], execArgv)
           /\ calls'.handleCrash =
                 [calls.handleCrash EXCEPT ![currentInput[s]][Retry] = @ + 1]

\* C7: with crash recovery on, a crash handled in state Normal puts the slot
\* in Retry, stops the old child, forks a new one with process.execArgv
\* unchanged and sends it the same task; the cursor does not move and nothing
\* else is sent (unless the handler ends in a fatal error).
C7_FirstCrashRetries == [][C7_Step]_vars

C7_Witness ==
    \E s \in Slots :
        /\ crashRecoveryState[s] = Retry /\ ~rejected
        /\ calls.fork[s] = 2 /\ child[s] \in runningChildren
        /\ procs[child[s]].execArgv = execArgv /\ Len(execArgv) = 3
        /\ procs[child[s]].inbox = <<2>> /\ inputIndex = 2

\* The argv of an escalated retry, and the step of C8.
IsMoreMemoryArgv(argv) ==
    /\ Len(argv) >= 1
    /\ argv[Len(argv)].k = "flagEq" /\ argv[Len(argv)].v = crashRecoveryMaxOldSpaceSize
    /\ \A k \in 1..(Len(argv) - 1) :
          /\ ~RegExpMatches(argv[k])
          /\ \E m \in 1..Len(execArgv) : execArgv[m] = argv[k]
    /\ Cardinality({k \in 1..Len(argv) : RegExpMatches(argv[k])}) = 1

C8_Step ==
    \A s \in Slots :
        (CrashHandled(s) /\ crashRecovery /\ crashRecoveryState[s] = Retry /\ ~rejected')
        => IF maxOldSpaceSize < crashRecoveryMaxOldSpaceSize
           THEN /\ crashRecoveryState'[s] = RetryWithMoreMemory
                /\ Resent(s, currentInput[s], procs'[child'[s]].execArgv)
                /\ IsMoreMemoryArgv(procs'[child'[s]].execArgv)
                /\ calls'.handleCrash =
                      [calls.handleCrash EXCEPT ![currentInput[s]][RetryWithMoreMemory] = @ + 1]
           ELSE /\ calls'.handleCrash =
                      [calls.handleCrash EXCEPT ![currentInput[s]][Crashed] = @ + 1]
                /\ calls'.send[currentInput[s]] = calls.send[currentInput[s]]
                /\ crashRecoveryState'[s] = Normal

\* C8: with crash recovery on, a crash handled in state Retry puts the slot in
\* RetryWithMoreMemory if and only if maxOldSpaceSize is strictly below
\* crashRecoveryMaxOldSpaceSize, and otherwise reports the task as Crashed at
\* once; when it escalates, the new process gets an argv that is what is left
\* of process.execArgv without any heap flag, followed by the flag with the
\* configured ceiling, and is sent the same task.
C8_SecondCrashEscalatesIffBelowCeiling == [][C8_Step]_vars

C8_Witness ==
    \E s \in Slots :
        /\ crashRecoveryState[s] = RetryWithMoreMemory /\ ~rejected
        /\ Cardinality({k \in 1..Len(execArgv) : RegExpMatches(execArgv[k])}) = 2
        /\ child[s] \in runningChildren
        /\ IsMoreMemoryArgv(procs[child[s]].execArgv)
        /\ procs[child[s]].inbox = <<currentInput[s]>>
        /\ calls.handleCrash[currentInput[s]][RetryWithMoreMemory] = 1

\* The state and the step of C9.
C9_State ==
    \A t \in Tasks :
        /\ calls.send[t] <= 3
        /\ calls.handleCrash[t][Retry] <= 1
        /\ calls.handleCrash[t][RetryWithMoreMemory] <= 1
        /\ calls.handleCrash[t][Crashed] <= 1

C9_Step ==
    \A s \in Slots :
        (CrashHandled(s) /\ crashRecoveryState[s] = RetryWithMoreMemory)
        => /\ calls'.handleCrash =
                 [calls.handleCrash EXCEPT ![currentInput[s]][Crashed] = @ + 1]
           /\ calls'.send[currentInput[s]] = calls.send[currentInput[s]]
           /\ crashRecoveryState'[s] \in {Normal, Crashed}

\* C9: no task is sent to more than three processes or retried more than
\* twice (once as Retry, once as RetryWithMoreMemory), and a crash handled in
\* state RetryWithMoreMemory always reports the task as Crashed.
C9_BoundedRetries == []C9_State /\ [][C9_Step]_vars

C9_Witness ==
    \E t \in Tasks :
        /\ calls.send[t] = 3
        /\ calls.handleCrash[t][Retry] = 1
        /\ calls.handleCrash[t][RetryWithMoreMemory] = 1
        /\ calls.handleCrash[t][Crashed] = 1
        /\ ~rejected

\* The memory escalation is available.
EscalationOn == crashRecovery /\ maxOldSpaceSize < crashRecoveryMaxOldSpaceSize

\* C10, as claimed: with escalation available, a task on which workers
\* crashed exactly twice was attempted in exactly three processes and is
\* classified Crashed.
C10_TwoCrashesMeanCrashed ==
    \A t \in Tasks :
        (EscalationOn /\ ~rejected /\ CrashCount(t) = 2)
        => (calls.send[t] = 3 /\ (Reported(t) = 1 => calls.handleCrash[t][Crashed] = 1))

\* C10, amended: with escalation available, a task on which workers crashed
\* exactly twice was attempted in exactly three processes and is not
\* classified Crashed (its slot is in RetryWithMoreMemory until the third
\* attempt ends); a task is classified Crashed after exactly three crashes in
\* exactly three processes.
C10_ThreeCrashesMeanCrashed ==
    \A t \in Tasks :
        EscalationOn =>
           /\ (~rejected /\ CrashCount(t) = 2) =>
                 /\ calls.send[t] = 3
                 /\ calls.handleCrash[t][Crashed] = 0
                 /\ Reported(t) = 0 =>
                       \E s \in Slots : /\ currentInput[s] = t
                                        /\ crashRecoveryState[s] = RetryWithMoreMemory
           /\ calls.handleCrash[t][Crashed] = 1 =>
                 CrashCount(t) = 3 /\ calls.send[t] = 3

C10_Witness ==
    \E t \in Tasks :
        /\ EscalationOn /\ ~rejected
        /\ CrashCount(t) = 2 /\ calls.send[t] = 3 /\ calls.handleOutput[t] = 1
        /\ settled = "resolved"

\* This step ran onMessage for the child of slot s.
MessageHandled(s) ==
    /\ currentInput[s] \in Tasks
    /\ calls'.handleOutput =
          [calls.handleOutput EXCEPT ![currentInput[s]] = @ + 1]

\* The state and the step of C11.
C11_State ==
    \A t \in Tasks :
        (crashRecovery /\ CrashCount(t) = 1 /\ calls.handleOutput[t] >= 1)
        => /\ calls.handleOutput[t] = 1
           /\ calls.handleCrash[t][Retry] = 1
           /\ calls.handleCrash[t][Crashed] = 0
           /\ calls.send[t] = 2

C11_Step ==
    \A s \in Slots :
        (MessageHandled(s) /\ crashRecoveryState[s] = Retry)
        => /\ crashRecoveryState'[s] = Normal
           /\ calls'.handleCrash = calls.handleCrash
           /\ calls'.send[currentInput[s]] = calls.send[currentInput[s]]

\* C11: a task on which a worker crashed once and whose retry then returned
\* a result has exactly one handleOutput call and no handleCrash call with
\* Crashed, and was sent to exactly two processes; the step that handles the
\* retry's result puts the slot back in Normal and neither reports a crash
\* nor sends the task again.
C11_CrashThenSuccessReportedOnce == []C11_State /\ [][C11_Step]_vars

\* 3 tasks, 1 slot, ceiling 4096, task 2 crashes once: all 3 reported once.
C11_Witness ==
    /\ nInputs = 3 /\ nProcesses = 1 /\ crashRecovery
    /\ crashRecoveryMaxOldSpaceSize = 4096
    /\ settled = "resolved"
    /\ CrashCount(2) = 1 /\ calls.handleCrash[2][Retry] = 1 /\ calls.send[2] = 2
    /\ \A t \in Tasks : calls.handleOutput[t] = 1 /\ calls.handleCrash[t][Crashed] = 0
    /\ CrashCount(1) = 0 /\ CrashCount(3) = 0
    /\ crashRecoveryState[1] = Normal

\* The state and the step of C12.
C12_State ==
    ~crashRecovery =>
        /\ \A s \in Slots : crashRecoveryState[s] \notin {Retry, RetryWithMoreMemory}
        /\ \A c \in DOMAIN procs : procs[c].execArgv = execArgv
        /\ \A t \in Tasks :
              /\ calls.send[t] <= 1
              /\ calls.handleCrash[t][Retry] = 0
              /\ calls.handleCrash[t][RetryWithMoreMemory] = 0
              /\ calls.handleCrash[t][Crashed] <= 1

C12_Step ==
    \A s \in Slots :
        (CrashHandled(s) /\ ~crashRecovery)
        => /\ calls'.handleCrash =
                 [calls.handleCrash EXCEPT ![currentInput[s]][Crashed] = @ + 1]
           /\ calls'.send[currentInput[s]] = calls.send[currentInput[s]]

\* C12: with crash recovery off, every handled crash calls handleCrash once
\* with Crashed for the slot's task, the task is not sent again, and no slot
\* is ever in Retry or RetryWithMoreMemory.
C12_DisabledRecoveryCrashesAtOnce == []C12_State /\ [][C12_Step]_vars

C12_Witness ==
    /\ ~crashRecovery /\ settled = "resolved" /\ nInputs >= 2
    /\ \E t \in Tasks : calls.handleCrash[t][Crashed] = 1 /\ calls.send[t] = 1
    /\ \E t \in Tasks : calls.handleOutput[t] = 1

\* The state and the step of C13.
C13_State ==
    (crashRecovery /\ crashRecoveryMaxOldSpaceSize = 0) =>
        /\ \A s \in Slots : crashRecoveryState[s] # RetryWithMoreMemory
        /\ \A c \in DOMAIN procs : procs[c].execArgv = execArgv
        /\ \A t \in Tasks :
              /\ calls.send[t] <= 2
              /\ calls.handleCrash[t][RetryWithMoreMemory] = 0
              /\ calls.handleCrash[t][Crashed] = 1 => CrashCount(t) = 2

C13_Step ==
    \A s \in Slots :
        (CrashHandled(s) /\ crashRecovery /\ crashRecoveryMaxOldSpaceSize = 0)
        => IF crashRecoveryState[s] = Normal
           THEN /\ calls'.handleCrash =
                      [calls.handleCrash EXCEPT ![currentInput[s]][Retry] = @ + 1]
                /\ ~rejected' => Resent(s, currentInput[s], execArgv)
           ELSE /\ crashRecoveryState[s] = Retry
                /\ calls'.handleCrash =
                      [calls.handleCrash EXCEPT ![currentInput[s]][Crashed] = @ + 1]
                /\ calls'.send[currentInput[s]] = calls.send[currentInput[s]]

\* C13: with crash recovery on and a ceiling of zero, no slot is ever in
\* RetryWithMoreMemory and every process is forked with process.execArgv as
\* it is; the first crash on a task restarts the worker with the same
\* arguments and the same task, and the second crash reports it as Crashed.
C13_ZeroCeilingNeverEscalates == []C13_State /\ [][C13_Step]_vars

C13_Witness ==
    /\ crashRecovery /\ crashRecoveryMaxOldSpaceSize = 0 /\ ~rejected
    /\ \E t \in Tasks :
          /\ calls.handleCrash[t][Retry] = 1 /\ calls.handleCrash[t][Crashed] = 1
          /\ calls.send[t] = 2

\* C14: in the step that signals a fatal error, every worker process is
\* killed: none that was alive before the step, the child of the slot on
\* which the error was raised included, is alive after it.
C14_AllKilledOnFatalError ==
    [][(~rejected /\ rejected') => \A c \in DOMAIN procs' : ~procs'[c].alive]_vars

\* C15: once a fatal error has been signaled no process is forked and no
\* task is claimed or sent.
C15_NoSpawnAfterFatalError ==
    [][rejected => /\ calls'.fork = calls.fork
                   /\ calls'.send = calls.send
                   /\ calls'.handleStart = calls.handleStart]_vars

\* C16: when fork never throws and no handler throws, workers ending on their
\* own, whenever they do, never make the run reject.
C16_CrashNeverFatal == settled # "rejected" /\ ~rejected

\* What the run recorded for task t.
TaskCrashed(t) == calls.handleCrash[t][Crashed] >= 1

TaskStatus(t) == status[testedPackages[t]]

TaskExpectedToFail(t) == testedPackages[t] \in expectedFailures

\* allFailures lists each task of the set once, with the text of its failure,
\* and nothing else.
ListedOnce(failing) ==
    /\ Len(allFailures) = Cardinality(failing)
    /\ \A t \in failing :
          \E k \in 1..Len(allFailures) :
             allFailures[k] = <<testedPackages[t],
                                IF TaskCrashed(t) THEN "Out of memory" ELSE TaskStatus(t)>>

\* C17, as claimed: main returns 0 if and only if every tested task returned
\* the status "OK" and none crashed, and otherwise the number of the tasks
\* that crashed or returned another status, each listed once with its text.
C17_ZeroIffEveryTaskOk ==
    result # Undefined =>
        LET failing == {t \in Tasks : TaskCrashed(t) \/ TaskStatus(t) # "OK"}
        IN  /\ result = Cardinality(failing)
            /\ ListedOnce(failing)

\* C17, amended: main returns the number of the tasks that crashed, that
\* returned a status other than "OK" without being expected to fail, or that
\* returned "OK" although expected to fail, each listed once with its text
\* ("Out of memory", or the status returned); a task that fails as expected
\* is not counted.
C17_ResultCountsUnexpectedOutcomes ==
    result # Undefined =>
        LET failing == {t \in Tasks :
                           \/ TaskCrashed(t)
                           \/ ~TaskExpectedToFail(t) /\ TaskStatus(t) # "OK"
                           \/ TaskExpectedToFail(t) /\ TaskStatus(t) = "OK"}
        IN  /\ result = Cardinality(failing)
            /\ result = 0 <=> failing = {}
            /\ ListedOnce(failing)

C17_Witness ==
    /\ result = 1 /\ nInputs = 2 /\ sharding # NoSharding /\ Len(allPackages) = 4
    /\ TaskCrashed(1)
    /\ TaskExpectedToFail(2) /\ TaskStatus(2) = "Error" /\ calls.handleOutput[2] = 1

\* The positions of allPackages that shard id of count is to select.
ShardPositions(id, count) ==
    {k \in 1..Len(allPackages) : (k - 1) % count = id - 1}

\* seq lists exactly the packages at the given positions, in their order in
\* allPackages (a package is named by its position).
ListsInOrder(seq, positions) ==
    /\ Len(seq) = Cardinality(positions)
    /\ Range(seq) = {allPackages[k] : k \in positions}
    /\ \A a, b \in 1..Len(seq) : a < b => seq[a] < seq[b]

\* C18: for every count, the shards 1..count of allPackages select the
\* positions i with i mod count = id - 1 (0-based), each in the original
\* order; they are pairwise disjoint and together they are all of
\* allPackages.
C18_ShardsPartition ==
    \A count \in 1..(MaxPackages + 1) :
        LET shards == [id \in 1..count |-> Shard(allPackages, id, count)]
        IN  /\ \A id \in 1..count : ListsInOrder(shards[id], ShardPositions(id, count))
            /\ \A id1, id2 \in 1..count :
                  id1 # id2 => Range(shards[id1]) \cap Range(shards[id2]) = {}
            /\ UNION {Range(shards[id]) : id \in 1..count} = Range(allPackages)

C18_Witness ==
    /\ Len(allPackages) = 4 /\ sharding = [id |-> 2, count |-> 2]
    /\ testedPackages = <<2, 4>>
    /\ calls.handleStart = <<1, 2>> /\ result # Undefined

\* C19: if allPackages has at least count packages, every shard 1..count has
\* at least one, and no shard has two more than another.
C19_ShardsNonEmpty ==
    \A count \in 1..Len(allPackages) :
        LET shards == [id \in 1..count |-> Shard(allPackages, id, count)]
        IN  /\ \A id \in 1..count : Len(shards[id]) >= 1
            /\ \A id1, id2 \in 1..count : Len(shards[id1]) - Len(shards[id2]) <= 1

C19_Witness ==
    /\ Len(allPackages) = 4 /\ sharding = [id |-> 3, count |-> 3]
    /\ testedPackages = <<3>>
    /\ calls.handleStart = <<1>> /\ result # Undefined

\* The position of the first heap flag of process.execArgv, 0 if there is none.
FirstFlag ==
    IF \E n \in 1..Len(execArgv) : execArgv[n].k \in {"flagEq", "flag"}
    THEN CHOOSE n \in 1..Len(execArgv) :
            /\ execArgv[n].k \in {"flagEq", "flag"}
            /\ \A m \in 1..(n - 1) : execArgv[m].k \notin {"flagEq", "flag"}
    ELSE 0

\* C20: getMaxOldSpaceSize(process.execArgv) is undefined when no token is
\* the heap flag; it is N when the first heap flag is the single token
\* --max-old-space-size=N, with hyphens or underscores, or the token
\* --max-old-space-size followed by the token N.
C20_ReadsFirstHeapFlag ==
    /\ FirstFlag = 0 => getMaxOldSpaceSize(execArgv) = Undefined
    /\ (FirstFlag # 0 /\ execArgv[FirstFlag].k = "flagEq")
          => getMaxOldSpaceSize(execArgv) = execArgv[FirstFlag].v
    /\ (FirstFlag # 0 /\ execArgv[FirstFlag].k = "flag" /\ FirstFlag < Len(execArgv)
           /\ execArgv[FirstFlag + 1].k = "num")
          => getMaxOldSpaceSize(execArgv) = execArgv[FirstFlag + 1].v

\* The flag in its two-token form, before another one: a worker crashed twice
\* and was not given more memory, 4096 being the ceiling already.
C20_Witness ==
    /\ execArgv = <<FlagBare(FALSE), Num(4096), FlagEq(8192, TRUE)>>
    /\ crashRecoveryMaxOldSpaceSize = 4096
    /\ maxOldSpaceSize = 4096
    /\ calls.handleCrash[1][Crashed] = 1 /\ calls.send[1] = 2

\* The positions of argv that hold the heap flag, in either form.
HeapFlags(argv) == {k \in 1..Len(argv) : argv[k].k \in {"flagEq", "flag"}}

\* C21: what getExecArgvWithoutMaxOldSpaceSize makes of process.execArgv
\* holds no heap flag, however many process.execArgv holds, and cleaning it
\* again changes nothing; the argv of a retry with more memory, and of every
\* process that was forked with one, holds exactly one heap flag: the
\* appended ceiling.
C21_CleanedArgvHasNoHeapFlag ==
    LET cleaned == getExecArgvWithoutMaxOldSpaceSize(execArgv)
    IN  /\ HeapFlags(cleaned) = {}
        /\ getExecArgvWithoutMaxOldSpaceSize(cleaned) = cleaned
        /\ HeapFlags(MoreMemoryArgv) = {Len(MoreMemoryArgv)}
        /\ \A s \in Slots :
              (child[s] \in DOMAIN procs /\ crashRecoveryState[s] = RetryWithMoreMemory)
              => LET argv == procs[child[s]].execArgv
                 IN  /\ HeapFlags(argv) = {Len(argv)}
                     /\ argv[Len(argv)] = FlagEq(crashRecoveryMaxOldSpaceSize, TRUE)

\* Two occurrences of the flag, one of each form, and a retry with more memory.
C21_Witness ==
    /\ execArgv = <<FlagEq(2048, FALSE), FlagBare(FALSE), Num(4096)>>
    /\ crashRecoveryState[1] = RetryWithMoreMemory
    /\ child[1] \in runningChildren
    /\ procs[child[1]].execArgv = <<FlagEq(4096, TRUE)>>
    /\ procs[child[1]].inbox = <<1>>

\* The state a crash takes a slot to from the given state, by the table of
\* transitions.
StateAfterCrash(state) ==
    IF ~crashRecovery THEN Crashed
    ELSE IF state = Normal THEN Retry
    ELSE IF state = Retry /\ maxOldSpaceSize < crashRecoveryMaxOldSpaceSize
         THEN RetryWithMoreMemory
    ELSE Crashed

\* C22, as claimed: every step that changes the recovery state of a slot
\* calls handleCrash once for the slot's task with the state the slot is in
\* afterwards, the steps back to Normal included.
C22_EveryTransitionNotified ==
    [][\A s \in Slots :
          (crashRecoveryState'[s] # crashRecoveryState[s] /\ currentInput[s] \in Tasks)
          => calls'.handleCrash[currentInput[s]][crashRecoveryState'[s]]
                = calls.handleCrash[currentInput[s]][crashRecoveryState'[s]] + 1]_vars

\* The state and the step of C22, amended.
C22_State ==
    \A t \in Tasks : calls.handleCrash[t][Normal] = 0

C22_Step ==
    /\ \A s \in Slots :
          CrashHandled(s) =>
             calls'.handleCrash =
                [calls.handleCrash EXCEPT
                    ![currentInput[s]][StateAfterCrash(crashRecoveryState[s])] = @ + 1]
    /\ (\A s \in Slots : ~CrashHandled(s)) => calls'.handleCrash = calls.handleCrash
    /\ \A s \in Slots :
          (MessageHandled(s) /\ crashRecoveryState[s] # Normal)
          => crashRecoveryState'[s] = Normal /\ calls'.handleCrash = calls.handleCrash

\* C22, amended: every handled crash calls handleCrash exactly once, for the
\* task in flight and with the state the crash takes the slot to, also when
\* no restart follows; handleCrash is called in no other step and never with
\* Normal: the steps back to Normal (a result received, a Crashed task
\* handled) are not notified.
C22_OnlyCrashTransitionsNotified == []C22_State /\ [][C22_Step]_vars

C22_Witness ==
    \E s \in Slots, t \in Tasks :
        /\ t < currentInput[s] /\ crashRecoveryState[s] = Normal /\ ~rejected
        /\ calls.handleCrash[t][Retry] = 1 /\ calls.handleCrash[t][RetryWithMoreMemory] = 1
        /\ calls.handleCrash[t][Normal] = 0 /\ calls.handleOutput[t] = 1
        /\ child[s] \in runningChildren /\ procs[child[s]].inbox = <<currentInput[s]>>

\* How many messages the run has sent.
RECURSIVE SumOver(_, _)
SumOver(f, S) ==
    IF S = {} THEN 0
    ELSE LET x == CHOOSE y \in S : TRUE IN f[x] + SumOver(f, S \ {x})

Sends == SumOver(calls.send, Tasks)

\* The state and the step of C23.
C23_State ==
    \A c \in DOMAIN procs : Len(procs[c].inbox) <= 1

C23_Step ==
    /\ Sends' \in {Sends, Sends + 1}
    /\ Sends' = Sends + 1 =>
          \E s \in Slots :
             /\ currentInput'[s] \in Tasks
             /\ calls'.send[currentInput'[s]] = calls.send[currentInput'[s]] + 1
             /\ \/ /\ calls'.fork[s] = calls.fork[s] + 1
                   /\ child'[s] \notin DOMAIN procs
                   /\ procs'[child'[s]].inbox = <<currentInput'[s]>>
                \/ /\ calls'.fork = calls.fork /\ child'[s] = child[s]
                   /\ MessageHandled(s)
                   /\ procs[child[s]].inbox = <<currentInput[s]>>
                   /\ procs'[child[s]].inbox \in {<<>>, <<currentInput'[s]>>}

\* C23: a step sends at most one message, and sends it either to the process
\* it has just forked or to the process whose result for the previous task
\* it has just handled; no process ever has more than one task to answer.
C23_NoPipelining == []C23_State /\ [][C23_Step]_vars

C23_Witness ==
    \E s \in Slots :
        /\ calls.fork[s] = 1 /\ child[s] \in runningChildren
        /\ calls.handleOutput[1] = 1 /\ calls.handleOutput[2] = 1
        /\ currentInput[s] = 3 /\ procs[child[s]].inbox = <<3>>
        /\ nProcesses = 1

\* C24: when the first worker of slot 1 never answers and never ends, and
\* there is another slot, every task but the one that worker holds is
\* sooner or later reported, once, and stays so; the run never resolves.
C24_OtherSlotsGoOn ==
    /\ (nProcesses >= 2) =>
          <>[](/\ inputIndex = nInputs
               /\ \A t \in Tasks : t # currentInput[1] => Reported(t) = 1)
    /\ [](nInputs >= 1 => settled = "pending")

C24_Witness ==
    /\ nInputs = 3 /\ nProcesses = 2 /\ inputIndex = 3
    /\ currentInput[1] = 1 /\ procs[HungChild].alive /\ procs[HungChild].inbox = <<1>>
    /\ Reported(1) = 0 /\ Reported(2) = 1 /\ Reported(3) = 1
    /\ nCrashes >= 1
    /\ processesLeft = 1 /\ runningChildren = {HungChild} /\ settled = "pending"

\* C25: the k-th handleStart call is for the k-th input, there is one call
\* per task the cursor has passed, the call is made in the step of the
\* task's first send, and a later send of the task (a retry) makes none.
C25_State ==
    /\ inputIndex <= nInputs
    /\ calls.handleStart = [k \in 1..inputIndex |-> k]

C25_Step ==
    /\ calls'.handleStart # calls.handleStart =>
          \E t \in Tasks :
             /\ calls'.handleStart = Append(calls.handleStart, t)
             /\ calls.send[t] = 0 /\ calls'.send[t] = 1
    /\ \A t \in Tasks :
          calls'.send[t] # calls.send[t] =>
             IF calls.send[t] = 0
             THEN calls'.handleStart = Append(calls.handleStart, t)
             ELSE calls'.handleStart = calls.handleStart

C25_InOrderAnnouncedOnce == []C25_State /\ [][C25_Step]_vars

C25_Witness ==
    /\ calls.handleStart = <<1, 2, 3>> /\ inputIndex = 3
    /\ calls.send[1] = 3 /\ calls.send[2] = 2 /\ calls.send[3] = 1

\* C26: a result handled in Retry or RetryWithMoreMemory while tasks remain
\* kills the slot's process and forks one with the original exec argv, which
\* is sent the next task; a result handled in Normal sends the next task to
\* the same process and forks nothing.  Until a fatal error, a live process
\* whose exec argv is not the original one is the process of a slot in
\* RetryWithMoreMemory, whose task crashed twice.
C26_State ==
    \A c \in DOMAIN procs :
        (~rejected /\ procs[c].alive /\ procs[c].execArgv # execArgv)
        => /\ child[c[1]] = c
           /\ crashRecoveryState[c[1]] = RetryWithMoreMemory
           /\ CrashCount(currentInput[c[1]]) = 2

C26_Step ==
    \A s \in Slots :
        (MessageHandled(s) /\ inputIndex < nInputs /\ ~rejected /\ ~rejected')
        => /\ crashRecoveryState'[s] = Normal
           /\ currentInput'[s] = inputIndex + 1 /\ inputIndex' = inputIndex + 1
           /\ calls'.send[inputIndex + 1] = 1
           /\ IF crashRecoveryState[s] \in {Retry, RetryWithMoreMemory}
              THEN /\ calls'.fork[s] = calls.fork[s] + 1
                   /\ child'[s] \notin DOMAIN procs
                   /\ ~procs'[child[s]].alive /\ ~procs'[child[s]].listening
                   /\ runningChildren' = (runningChildren \ {child[s]}) \cup {child'[s]}
                   /\ procs'[child'[s]].execArgv = execArgv
                   /\ procs'[child'[s]].inbox = <<inputIndex + 1>>
              ELSE /\ crashRecoveryState[s] = Normal
                   /\ calls'.fork = calls.fork
                   /\ child'[s] = child[s] /\ runningChildren' = runningChildren
                   /\ procs'[child[s]].execArgv = procs[child[s]].execArgv
                   /\ procs'[child[s]].execArgv = execArgv
                   /\ procs[child[s]].alive => procs'[child[s]].inbox = <<inputIndex + 1>>

C26_FreshProcessAfterRetry == []C26_State /\ [][C26_Step]_vars

C26_Witness ==
    \E s \in Slots :
        /\ calls.fork[s] = 4 /\ child[s] \in runningChildren
        /\ procs[<<s, 3>>].execArgv # execArgv /\ ~procs[<<s, 3>>].alive
        /\ CrashCount(1) = 2 /\ calls.handleOutput[1] = 1
        /\ currentInput[s] = 2 /\ crashRecoveryState[s] = Normal
        /\ procs[child[s]].execArgv = execArgv /\ procs[child[s]].inbox = <<2>>

\* C27: the step that classifies a slot's task Crashed, and ends in no fatal
\* error, leaves the slot in Normal having reported the task Crashed; with a
\* task left it forks a process with the original exec argv that is sent the
\* next task, and with none left it retires the slot (processesLeft drops by
\* one, the run resolving at zero) and forks nothing.
C27_Step ==
    \A s \in Slots :
        (/\ CrashHandled(s) /\ ~rejected'
         /\ StateAfterCrash(crashRecoveryState[s]) = Crashed)
        => /\ crashRecoveryState'[s] = Normal
           /\ calls'.handleCrash[currentInput[s]][Crashed] = 1
           /\ calls'.handleOutput = calls.handleOutput
           /\ ~procs'[child[s]].alive /\ ~procs'[child[s]].listening
           /\ IF inputIndex < nInputs
              THEN /\ calls'.fork[s] = calls.fork[s] + 1
                   /\ child'[s] \notin DOMAIN procs
                   /\ runningChildren' = (runningChildren \ {child[s]}) \cup {child'[s]}
                   /\ procs'[child'[s]].execArgv = execArgv
                   /\ procs'[child'[s]].inbox = <<inputIndex + 1>>
                   /\ currentInput'[s] = inputIndex + 1
                   /\ inputIndex' = inputIndex + 1
                   /\ calls'.handleStart = Append(calls.handleStart, inputIndex + 1)
                   /\ processesLeft' = processesLeft /\ settled' = settled
              ELSE /\ calls'.fork = calls.fork /\ calls'.send = calls.send
                   /\ child'[s] = child[s]
                   /\ runningChildren' = runningChildren \ {child[s]}
                   /\ inputIndex' = inputIndex
                   /\ processesLeft' = processesLeft - 1
                   /\ settled' = IF processesLeft' = 0 THEN "resolved" ELSE "pending"

C27_CrashedMovesOn == [][C27_Step]_vars

C27_Witness ==
    \E s \in Slots :
        /\ nInputs >= 2 /\ crashRecovery /\ ~rejected
        /\ calls.handleCrash[1][Retry] = 1 /\ calls.handleCrash[1][Crashed] = 1
        /\ calls.handleOutput[1] = 0
        /\ calls.fork[s] = 3 /\ child[s] = <<s, 3>> /\ child[s] \in runningChildren
        /\ crashRecoveryState[s] = Normal /\ currentInput[s] = 2
        /\ procs[child[s]].execArgv = execArgv /\ procs[child[s]].inbox = <<2>>

\* The processes for which onClose has been called.
ClosedChildren == {c \in DOMAIN procs : procs[c].onClose >= 1}

\* The crashes handled so far.
CrashesHandled == SumOver([t \in Tasks |-> CrashCount(t)], Tasks)

\* C28: onClose is called at most once for a process, whatever events and
\* timers of it occur and in whatever order; every crash that is handled is
\* handled in the one call made for the process that is then the slot's
\* current, running one, so an event or timer of a process that was replaced
\* changes nothing of the slot.
C28_State ==
    /\ \A c \in DOMAIN procs : procs[c].onClose <= 1
    /\ CrashesHandled <= Cardinality(ClosedChildren)

C28_Step ==
    /\ \A c \in DOMAIN procs :
          procs'[c].onClose # procs[c].onClose => c = child[c[1]]
    /\ \A s \in Slots :
          (\/ \E t \in Tasks : calls'.handleCrash[t] # calls.handleCrash[t]
                                /\ t = currentInput[s]
           \/ /\ crashRecoveryState'[s] # crashRecoveryState[s]
              /\ crashRecoveryState'[s] # Normal)
          => /\ child[s] \in runningChildren
             /\ procs[child[s]].onClose = 0 /\ procs'[child[s]].onClose = 1

C28_OnCloseOncePerChild == []C28_State /\ [][C28_Step]_vars

C28_Witness ==
    \E s \in Slots :
        /\ child[s] = <<s, 2>> /\ child[s] \in runningChildren
        /\ procs[<<s, 1>>].timer /\ procs[<<s, 1>>].onClose = 1
        /\ procs[child[s]].alive /\ procs[child[s]].onClose = 0
        /\ currentInput[s] \in Tasks /\ CrashCount(currentInput[s]) = 1
        /\ crashRecoveryState[s] = Retry

\* C29: a step in which something of a process that is not running (one that
\* was retired, replaced or dropped) changes, changes nothing else: not the
\* recovery states, the cursor, processesLeft, the promise, the slots'
\* processes and tasks, nor the calls made of the handlers.
C29_Step ==
    \A c \in DOMAIN procs :
        (c \notin runningChildren /\ procs'[c] # procs[c])
        => /\ crashRecoveryState' = crashRecoveryState
           /\ inputIndex' = inputIndex /\ processesLeft' = processesLeft
           /\ calls' = calls /\ allFailures' = allFailures
           /\ child' = child /\ currentInput' = currentInput
           /\ runningChildren' = runningChildren
           /\ settled' = settled /\ rejected' = rejected
           /\ \A d \in DOMAIN procs : d # c => procs'[d] = procs[d]
           /\ DOMAIN procs' = DOMAIN procs

C29_StoppedChildNeverCrashes == [][C29_Step]_vars

C29_Witness ==
    \E c \in DOMAIN procs :
        /\ c \notin runningChildren /\ child[c[1]] = c
        /\ procs[c].timer /\ procs[c].onClose = 1
        /\ ~rejected /\ calls.handleOutput[nInputs] = 1
        /\ CrashesHandled = 0

\* C30: until a fatal error a slot is, between events, in Normal, Retry or
\* RetryWithMoreMemory, and while its process runs the state tells how often
\* its current task has crashed (0, 1, 2); a slot that claims a task from the
\* cursor is in Normal after the step; a slot enters Retry only from Normal
\* and RetryWithMoreMemory only from Retry.
C30_State ==
    \A s \in Slots :
        ~rejected =>
           /\ crashRecoveryState[s] \in {Normal, Retry, RetryWithMoreMemory}
           /\ (child[s] \in runningChildren /\ currentInput[s] \in Tasks) =>
                 CrashCount(currentInput[s]) =
                    CASE crashRecoveryState[s] = Normal -> 0
                      [] crashRecoveryState[s] = Retry -> 1
                      [] crashRecoveryState[s] = RetryWithMoreMemory -> 2

C30_Step ==
    \A s \in Slots :
        /\ (currentInput'[s] # currentInput[s] /\ currentInput'[s] \in Tasks)
           => /\ crashRecoveryState'[s] = Normal
              /\ currentInput'[s] = inputIndex + 1 /\ inputIndex' = inputIndex + 1
        /\ crashRecoveryState'[s] # crashRecoveryState[s] =>
              CASE crashRecoveryState'[s] = Retry -> crashRecoveryState[s] = Normal
                [] crashRecoveryState'[s] = RetryWithMoreMemory ->
                      crashRecoveryState[s] = Retry
                [] crashRecoveryState'[s] = Crashed -> rejected'
                [] OTHER -> TRUE

C30_StateCountsCurrentTask == []C30_State /\ [][C30_Step]_vars

C30_Witness ==
    \E s \in Slots :
        /\ ~rejected /\ child[s] \in runningChildren
        /\ currentInput[s] = 2 /\ crashRecoveryState[s] = Retry
        /\ calls.handleCrash[1][RetryWithMoreMemory] = 1
        /\ calls.handleOutput[1] = 1
        /\ CrashCount(2) = 1

\* C31: no assertion of stopChild, restartChild, resumeTask, nextTask or of
\* onClose's second switch ever fails: each of them runs only with the slot's
\* child in runningChildren, and onClose's switch only in Retry,
\* RetryWithMoreMemory or Crashed.
C31_AssertionsNeverFail == ~calls.assertFailed

C31_Witness ==
    /\ nInputs = 2 /\ nProcesses = 1 /\ ~calls.assertFailed
    /\ calls.handleCrash[1][Retry] = 1 /\ calls.handleOutput[1] = 1
    /\ calls.handleCrash[2][Retry] = 1 /\ calls.handleCrash[2][Crashed] = 1
    /\ calls.fork[1] = 4 /\ calls.send[1] = 2 /\ calls.send[2] = 2
    /\ runningChildren = {} /\ settled = "resolved"

\* argv from position k on, read once from left to right, without the heap
\* flags: a flag of the form --flag=N is left out, and a bare flag is left out
\* together with the token after it, which is its value.
RECURSIVE WithoutHeapFlagsFrom(_, _)
WithoutHeapFlagsFrom(argv, k) ==
    IF k > Len(argv) THEN <<>>
    ELSE IF argv[k].k = "flagEq" THEN WithoutHeapFlagsFrom(argv, k + 1)
    ELSE IF argv[k].k = "flag" THEN WithoutHeapFlagsFrom(argv, k + 2)
    ELSE <<argv[k]>> \o WithoutHeapFlagsFrom(argv, k + 1)

\* C32: what getExecArgvWithoutMaxOldSpaceSize makes of process.execArgv is
\* process.execArgv with the heap flags and the values of the bare ones left
\* out, every other token kept in its place in the order; it is
\* process.execArgv itself when that holds no heap flag; and a retry with
\* more memory is forked with exactly these tokens before the new ceiling.
C32_OtherArgumentsUntouched ==
    LET cleaned == getExecArgvWithoutMaxOldSpaceSize(execArgv)
    IN  /\ cleaned = WithoutHeapFlagsFrom(execArgv, 1)
        /\ HeapFlags(execArgv) = {} => cleaned = execArgv
        /\ \A c \in DOMAIN procs :
              \/ procs[c].execArgv = execArgv
              \/ /\ Len(procs[c].execArgv) = Len(cleaned) + 1
                 /\ SubSeq(procs[c].execArgv, 1, Len(cleaned))
                       = WithoutHeapFlagsFrom(execArgv, 1)

C32_Witness ==
    /\ execArgv = <<FlagEq(2048, FALSE), Other, Num(4096)>>
    /\ crashRecoveryState[1] = RetryWithMoreMemory
    /\ child[1] \in runningChildren
    /\ procs[child[1]].execArgv = <<Other, Num(4096), FlagEq(4096, TRUE)>>

\* C33: in a call of nAtATime with n >= 1, use is called at most once for an
\* input and for the inputs before the cursor only, the cursor moving by one
\* with each call; at most n calls are in flight; a result that is stored is
\* the output of the call for the input at its index; the call resolves only
\* when no call is in flight and use was called once for every input, and it
\* returns the outputs in the order of the inputs; and when no call of use
\* rejects, it does resolve.
C33_State ==
    LET na == nAtATime
        K == 1..na.length
    IN  na.n >= 1 =>
           /\ \A k \in K : na.uses[k] = IF k <= na.nextIndex THEN 1 ELSE 0
           /\ na.inFlight \subseteq 1..na.nextIndex
           /\ Cardinality(na.inFlight) <= na.n
           /\ \A k \in K : na.results[k] # NoResult =>
                 /\ na.results[k] = na.output[k]
                 /\ na.uses[k] = 1 /\ k \notin na.inFlight
           /\ na.settled = "resolved" =>
                 /\ na.inFlight = {}
                 /\ \A k \in K : na.uses[k] = 1
                 /\ na.returned = na.output

C33_Step ==
    /\ nAtATime'.nextIndex \in {nAtATime.nextIndex, nAtATime.nextIndex + 1}
    /\ nAtATime.settled # "pending" => nAtATime'.settled = nAtATime.settled

C33_Final ==
    nAtATime.n >= 1 =>
       /\ nAtATime.settled # "pending"
       /\ (\A w \in DOMAIN nAtATime.workers : nAtATime.workers[w].pc = "fulfilled")
          => nAtATime.settled = "resolved"

C33_NAtATime == []C33_State /\ [][C33_Step]_vars /\ <>[]C33_Final

C33_Witness ==
    /\ nAtATime.n = 2 /\ nAtATime.length = 3
    /\ nAtATime.output = <<"x", "y", "x">>
    /\ nAtATime.settled = "resolved" /\ nAtATime.returned = <<"x", "y", "x">>
    /\ nAtATime.workers[1].pc = "fulfilled" /\ nAtATime.workers[2].pc = "fulfilled"

\* C34, as claimed: in the runner without crash recovery no result is
\* handled twice, the promise resolves only after the output of every task
\* was handled and rejects only with every worker killed, the assertion of
\* the 'close' listener never fails, and the promise is sooner or later
\* settled.
C34_Resolved ==
    legacy.settled = "resolved" =>
       \A t \in 1..legacy.length : legacy.handleOutput[t] = 1

C34_Rejected ==
    legacy.settled = "rejected" =>
       \A c \in DOMAIN legacy.allChildren : ~legacy.allChildren[c].alive

C34_AssertHolds == ~legacy.assertFailed

C34_Settles == <>(legacy.settled # "pending")

C34_NoTaskDroppedAndSettles ==
    /\ [](C34_Resolved /\ C34_Rejected /\ C34_AssertHolds)
    /\ C34_Settles

====
